---- MODULE Spec2Model ----
(***************************************************************************)
(* The awareness engine of y-protocols-typescript (class Awareness): the   *)
(* per-client ephemeral states, their clocks and timestamps, the events    *)
(* the engine emits and its liveness sweeper.                              *)
(*                                                                         *)
(* A JavaScript Map is an insertion-ordered list of entries: `states` and  *)
(* `meta` are sequences of [k, v] records in insertion order, so that      *)
(* Map.forEach and Map.keys() iterate as the code does.                    *)
(* A JSON value in memory is a tagged record; its JSON text is a string.   *)
(* An update blob is the sequence of the fields lib0's Encoder wrote:      *)
(* <<N, id_1, clock_1, text_1, ..., id_N, clock_N, text_N>>.               *)
(***************************************************************************)
EXTENDS Integers, Sequences, FiniteSets, Bags, TLC

VARIABLES
    states,       \* this.states: Map<number, State>
    meta,         \* this.meta: Map<number, MetaClientState>
    now,          \* Date.now()
    nextCheck,    \* the time at which the interval timer fires next
    timerOn,      \* this._checkTimer is set and not cleared
    events,       \* the events emitted by the last operation, in order
    op,           \* the last operation
    assignBase,   \* meta[self].clock when the current run of assignments began
    assignCount,  \* the number of assignments in the current run
    budget,       \* the calls still allowed in the timed specification
    provider,     \* the fields of the WebSocketProvider
    sockets,      \* every WebSocket created: its readyState, and whether it has opened
    timers,       \* the reconnect timeouts set and not yet fired
    doc,          \* the structs of the shared document (Y.Doc)
    out,          \* what the last handler emitted, sent, published and scheduled
    peers,        \* the engines of the other Providers of the room: their states and meta
    flight        \* the frames in flight on the bus: for each Provider, those it has yet to read

pvars == <<provider, sockets, timers, doc, out, peers, flight>>

vars == <<states, meta, now, nextCheck, timerOn, events, op, assignBase, assignCount, budget,
          provider, sockets, timers, doc, out, peers, flight>>

(***************************************************************************)
(* Constants of the program and bounds of the model.                       *)
(***************************************************************************)
outdatedTimeout == 30000

Self == 1

RemoteClients == {2, 3}

Clients == {Self} \cup RemoteClients

MaxClock == 2

MaxSweeps == 11

MaxCoreSteps == 1

MaxCalls == 2

MaxRelayCalls == 1

MaxSockets == 3

MaxEpochs == 2

MaxAttempts == 11

checkInterval == outdatedTimeout \div 10

TimeStep == checkInterval \div 2

MaxTime == MaxSweeps * checkInterval

CoreMaxTime == MaxCoreSteps * TimeStep

messageReconnectTimeout == 30000

\* The period of the check timer of the Provider.
checkTimerInterval == messageReconnectTimeout \div 10

(***************************************************************************)
(* JSON values and their text.                                             *)
(***************************************************************************)
Null == [type |-> "null", repr |-> "null"]

EmptyObj == [type |-> "object", repr |-> ""]

ObjA == [type |-> "object", repr |-> "name:a"]

Zero == [type |-> "number", repr |-> "0"]

Undefined == [type |-> "undefined", repr |-> ""]

ObjB == [type |-> "object", repr |-> "name:b"]

One == [type |-> "number", repr |-> "1"]

True == [type |-> "boolean", repr |-> "true"]

False == [type |-> "boolean", repr |-> "false"]

EmptyArr == [type |-> "array", repr |-> ""]

StrA == [type |-> "string", repr |-> "a"]

StrEmpty == [type |-> "string", repr |-> ""]

\* JSON.stringify of a value: its text without white space.
JSONstringify(value) ==
    CASE value = Null -> "null"
      [] value = EmptyObj -> "{}"
      [] value = ObjA -> "{\"name\":\"a\"}"
      [] value = ObjB -> "{\"name\":\"b\"}"
      [] value = Zero -> "0"
      [] value = One -> "1"
      [] value = True -> "true"
      [] value = False -> "false"
      [] value = EmptyArr -> "[]"
      [] value = StrA -> "\"a\""
      [] value = StrEmpty -> "\"\""

\* JSON.parse of the JSON texts of the model: white space around tokens is
\* skipped, and 0, -0 and 0.0 are one number to isEqual, to || and to
\* JSON.stringify.
JSONparse(text) ==
    CASE text \in {"null", " null", "null "} -> Null
      [] text \in {"{}", "{ }"} -> EmptyObj
      [] text \in {"{\"name\":\"a\"}", "{\"name\": \"a\"}", "{ \"name\" : \"a\" }"} -> ObjA
      [] text \in {"{\"name\":\"b\"}", "{\"name\": \"b\"}"} -> ObjB
      [] text \in {"0", "-0", "0.0", " 0"} -> Zero
      [] text \in {"1", "1.0", "1e0"} -> One
      [] text = "true" -> True
      [] text = "false" -> False
      [] text \in {"[]", "[ ]"} -> EmptyArr
      [] text = "\"a\"" -> StrA
      [] text = "\"\"" -> StrEmpty

\* The texts JSON.parse takes.
JSONValid ==
    {"null", " null", "null ", "{}", "{ }",
     "{\"name\":\"a\"}", "{\"name\": \"a\"}", "{ \"name\" : \"a\" }",
     "{\"name\":\"b\"}", "{\"name\": \"b\"}", "0", "-0", "0.0", " 0", "1", "1.0", "1e0",
     "true", "false", "[]", "[ ]", "\"a\"", "\"\""}

\* Texts on which JSON.parse throws a SyntaxError.
NotJSON ==
    {"", " ", "{", "}", "[", "]", "\"", "\"a", "{\"name\":\"a\"", "{\"name\":}",
     "{name:\"a\"}", "{'name':'a'}", "'a'", "nul", "Null", "undefined", "NaN",
     "True", "01", "1.", "-", "{},", "[,]", "{\"name\":\"a\",}"}

\* Whether JSON.parse takes the text, for the texts of the model.
IsJSON(text) ==
    CASE text \in JSONValid -> TRUE
      [] text \in NotJSON -> FALSE

\* JavaScript truthiness: objects and arrays, non-empty strings, numbers other
\* than 0 and true are truthy; null, undefined, 0, "" and false are not.
Truthy(value) == value \notin {Null, Undefined, Zero, False, StrEmpty}

\* lib0.isEqual: deep equality of two JSON values (or undefined).
isEqual(a, b) == a = b

(***************************************************************************)
(* Map<number, V> as an insertion-ordered list of entries.                 *)
(***************************************************************************)
EmptyMap == <<>>

MapKeys(m) == [i \in 1..Len(m) |-> m[i].k]

MapHas(m, key) == \E i \in 1..Len(m) : m[i].k = key

MapGet(m, key) ==
    IF MapHas(m, key)
    THEN m[CHOOSE i \in 1..Len(m) : m[i].k = key].v
    ELSE Undefined

MapSet(m, key, value) ==
    IF MapHas(m, key)
    THEN [i \in 1..Len(m) |-> IF m[i].k = key THEN [k |-> key, v |-> value] ELSE m[i]]
    ELSE Append(m, [k |-> key, v |-> value])

MapDelete(m, key) ==
    LET keep[i \in 0..Len(m)] ==
            IF i = 0 THEN <<>>
            ELSE IF m[i].k = key THEN keep[i - 1] ELSE Append(keep[i - 1], m[i])
    IN keep[Len(m)]

(***************************************************************************)
(* Events: emit(name, [{added, updated, removed}, origin]).                *)
(***************************************************************************)
Event(name, added, updated, removed, origin) ==
    [name |-> name, added |-> added, updated |-> updated,
     removed |-> removed, origin |-> origin]

\* get localState(): this.states.get(this.clientID) || null
localState(st) ==
    IF Truthy(MapGet(st, Self)) THEN MapGet(st, Self) ELSE Null

NoChange(st, mt) == [states |-> st, meta |-> mt, events |-> <<>>]

(***************************************************************************)
(* set localState(state)                                                   *)
(***************************************************************************)
LocalClockKept(mt) == IF ~MapHas(mt, Self) THEN 0 ELSE MapGet(mt, Self).clock

\* const clock = currLocalMeta === undefined ? 0 : currLocalMeta.clock + 1
LocalClock(mt) == IF ~MapHas(mt, Self) THEN 0 ELSE MapGet(mt, Self).clock + 1

SetLocalStateResult(st, mt, state, t) ==
    LET clientID == Self
        clock == LocalClock(mt)
        prevState == MapGet(st, clientID)
        st2 == IF state = Null THEN MapDelete(st, clientID) ELSE MapSet(st, clientID, state)
        mt2 == MapSet(mt, clientID, [clock |-> clock, lastUpdated |-> t])
        removed == IF state = Null THEN <<clientID>> ELSE <<>>
        added == IF state # Null /\ prevState = Undefined THEN <<clientID>> ELSE <<>>
        updated == IF state # Null /\ prevState # Undefined THEN <<clientID>> ELSE <<>>
        filteredUpdated ==
            IF state # Null /\ prevState # Undefined /\ ~isEqual(prevState, state)
            THEN <<clientID>> ELSE <<>>
        change ==
            IF Len(added) > 0 \/ Len(filteredUpdated) > 0 \/ Len(removed) > 0
            THEN <<Event("change", added, filteredUpdated, removed, "local")>>
            ELSE <<>>
    IN [states |-> st2, meta |-> mt2,
        events |-> change \o <<Event("update", added, updated, removed, "local")>>]

(***************************************************************************)
(* removeStates(clients, origin)                                           *)
(***************************************************************************)
RemoveStatesLoop(st, mt, clients, t) ==
    LET acc[i \in 0..Len(clients)] ==
            IF i = 0 THEN [states |-> st, meta |-> mt, removed |-> <<>>]
            ELSE LET prev == acc[i - 1]
                     clientID == clients[i]
                 IN IF ~MapHas(prev.states, clientID) THEN prev
                    ELSE IF clientID = Self
                    THEN IF ~MapHas(prev.meta, clientID)
                         THEN [prev EXCEPT !.states = MapDelete(prev.states, clientID)]
                         ELSE [states |-> MapDelete(prev.states, clientID),
                               meta |-> MapSet(prev.meta, clientID,
                                          [clock |-> MapGet(prev.meta, clientID).clock + 1,
                                           lastUpdated |-> t]),
                               removed |-> Append(prev.removed, clientID)]
                    ELSE [states |-> MapDelete(prev.states, clientID),
                          meta |-> prev.meta,
                          removed |-> Append(prev.removed, clientID)]
    IN acc[Len(clients)]

RemoveStatesResultSilent(st, mt, clients, origin, t) ==
    LET r == RemoveStatesLoop(st, mt, clients, t)
    IN [states |-> r.states, meta |-> r.meta, events |-> <<>>]

RemoveStatesResult(st, mt, clients, origin, t) ==
    LET r == RemoveStatesLoop(st, mt, clients, t)
    IN [states |-> r.states, meta |-> r.meta,
        events |-> IF Len(r.removed) > 0
                   THEN <<Event("change", <<>>, <<>>, r.removed, origin),
                          Event("update", <<>>, <<>>, r.removed, origin)>>
                   ELSE <<>>]

(***************************************************************************)
(* applyUpdate(update, origin)                                             *)
(***************************************************************************)
\* The i-th record of a blob: readVarUint, readVarUint, JSON.parse(readVarString).
ReadRecord(update, i) ==
    [clientID |-> update[3 * i - 1], clock |-> update[3 * i],
     state |-> JSONparse(update[3 * i + 1])]

AcceptsEqualClock(st, mt, rec) ==
    LET currClock == IF ~MapHas(mt, rec.clientID) THEN 0 ELSE MapGet(mt, rec.clientID).clock
    IN currClock <= rec.clock

\* The condition under which applyUpdate takes a record.
Accepts(st, mt, rec) ==
    LET currClock == IF ~MapHas(mt, rec.clientID) THEN 0 ELSE MapGet(mt, rec.clientID).clock
    IN \/ currClock < rec.clock
       \/ currClock = rec.clock /\ rec.state = Null /\ MapHas(st, rec.clientID)

DefendsNever(st, rec) == FALSE

\* A null record for the local client while the local state is set: the
\* state is kept and the clock of the record is raised (clock++).
Defends(st, rec) ==
    rec.state = Null /\ rec.clientID = Self /\ localState(st) # Null

DefendedClockKept(clock) == clock

DefendedClock(clock) == clock + 1

RecordMetaKnownOnly(mt, clientID, clock, timestamp) ==
    IF MapHas(mt, clientID)
    THEN MapSet(mt, clientID, [clock |-> clock, lastUpdated |-> timestamp])
    ELSE mt

\* this.meta.set(clientID, { clock: clock, lastUpdated: timestamp })
RecordMeta(mt, clientID, clock, timestamp) ==
    MapSet(mt, clientID, [clock |-> clock, lastUpdated |-> timestamp])

ApplyRecord(prev, rec, timestamp) ==
    LET clientID == rec.clientID
        state == rec.state
        hasMeta == MapHas(prev.meta, clientID)
        prevState == MapGet(prev.states, clientID)
        defend == Defends(prev.states, rec)
        clock == IF defend THEN DefendedClock(rec.clock) ELSE rec.clock
        st2 == IF state = Null
               THEN IF defend THEN prev.states ELSE MapDelete(prev.states, clientID)
               ELSE MapSet(prev.states, clientID, state)
        mt2 == RecordMeta(prev.meta, clientID, clock, timestamp)
        isAdded == ~hasMeta /\ state # Null
        isRemoved == ~isAdded /\ hasMeta /\ state = Null
        isUpdated == ~isAdded /\ ~isRemoved /\ state # Null
    IN IF ~Accepts(prev.states, prev.meta, rec) THEN prev
       ELSE [states |-> st2, meta |-> mt2,
             added |-> IF isAdded THEN Append(prev.added, clientID) ELSE prev.added,
             updated |-> IF isUpdated THEN Append(prev.updated, clientID) ELSE prev.updated,
             filteredUpdated |->
                 IF isUpdated /\ ~isEqual(state, prevState)
                 THEN Append(prev.filteredUpdated, clientID) ELSE prev.filteredUpdated,
             removed |-> IF isRemoved THEN Append(prev.removed, clientID) ELSE prev.removed]

\* Reading the i-th record throws: the decoder runs out of bytes ('Unexpected
\* end of array') or JSON.parse rejects the text.
RecordThrows(update, i) == Len(update) < 3 * i + 1 \/ ~IsJSON(update[3 * i + 1])

\* applyUpdate throws: on an empty blob at the count of records, otherwise at
\* the first record of the announced ones that cannot be read.
UpdateThrows(update) ==
    Len(update) = 0 \/ \E i \in 1..update[1] : RecordThrows(update, i)

\* The number of records the loop reads and applies before it ends or throws.
RecordsRead(update) ==
    IF Len(update) = 0 THEN 0
    ELSE LET bad == {i \in 1..update[1] : RecordThrows(update, i)}
         IN IF bad = {} THEN update[1]
            ELSE (CHOOSE i \in bad : \A j \in bad : i <= j) - 1

\* The loop of applyUpdate: each record is decoded and applied in turn, so the
\* records before one that throws have been applied.
ApplyUpdateLoop(st, mt, update, timestamp) ==
    LET len == RecordsRead(update)
        acc[i \in 0..len] ==
            IF i = 0
            THEN [states |-> st, meta |-> mt, added |-> <<>>, updated |-> <<>>,
                  filteredUpdated |-> <<>>, removed |-> <<>>]
            ELSE ApplyRecord(acc[i - 1], ReadRecord(update, i), timestamp)
    IN acc[len]

\* applyUpdate(update, origin) after its loop has left r: the exception of
\* the decoder leaves the method before the events are emitted; thrown tells
\* that it did.
ApplyUpdateEvents(r, update, origin) ==
    LET change ==
            IF Len(r.added) > 0 \/ Len(r.filteredUpdated) > 0 \/ Len(r.removed) > 0
            THEN <<Event("change", r.added, r.filteredUpdated, r.removed, origin)>>
            ELSE <<>>
        update_ ==
            IF Len(r.added) > 0 \/ Len(r.updated) > 0 \/ Len(r.removed) > 0
            THEN <<Event("update", r.added, r.updated, r.removed, origin)>>
            ELSE <<>>
    IN [states |-> r.states, meta |-> r.meta,
        events |-> IF UpdateThrows(update) THEN <<>> ELSE change \o update_,
        thrown |-> UpdateThrows(update)]

ApplyUpdateResult(st, mt, update, origin, timestamp) ==
    ApplyUpdateEvents(ApplyUpdateLoop(st, mt, update, timestamp), update, origin)

(***************************************************************************)
(* encodeUpdate(clients, states = this.states) and the decoding loop       *)
(***************************************************************************)
EncodeUpdateNeedsState(clients, st, mt) ==
    LET len == Len(clients)
        enc[i \in 0..len] ==
            IF i = 0 THEN <<len>>
            ELSE LET clientID == clients[i]
                     state == IF Truthy(MapGet(st, clientID)) THEN MapGet(st, clientID) ELSE Null
                 IN enc[i - 1] \o <<clientID, MapGet(mt, clientID).clock, JSONstringify(state)>>
    IN IF \E i \in 1..len : ~MapHas(mt, clients[i]) \/ ~MapHas(st, clients[i])
       THEN [ok |-> FALSE, data |-> <<>>]
       ELSE [ok |-> TRUE, data |-> enc[len]]

EncodeUpdate(clients, st, mt) ==
    LET len == Len(clients)
        enc[i \in 0..len] ==
            IF i = 0 THEN <<len>>
            ELSE LET clientID == clients[i]
                     state == IF Truthy(MapGet(st, clientID)) THEN MapGet(st, clientID) ELSE Null
                 IN enc[i - 1] \o <<clientID, MapGet(mt, clientID).clock, JSONstringify(state)>>
    IN IF \E i \in 1..len : ~MapHas(mt, clients[i])
       THEN [ok |-> FALSE, data |-> <<>>]
       ELSE [ok |-> TRUE, data |-> enc[len]]

DecodeUpdate(update) == [i \in 1..update[1] |-> ReadRecord(update, i)]

(***************************************************************************)
(* The state after `new Awareness(document)`: the constructor starts the   *)
(* interval timer and assigns localState = {}.                             *)
(***************************************************************************)
Constructed == SetLocalStateResult(EmptyMap, EmptyMap, EmptyObj, 0)

\* The field initialisers of class WebSocketProvider, enableBroadcast of its
\* configuration, and the check timer the constructor sets: checkTimerDue is
\* the time at which the interval fires next.
Fields ==
    [shouldConnect |-> TRUE, socket |-> 0,
     webSocketConnected |-> FALSE, webSocketConnecting |-> FALSE,
     webSocketUnsuccessfulReconnects |-> 0, webSocketLastMessageReceived |-> 0,
     synced |-> FALSE, broadcastConnected |-> FALSE, enableBroadcast |-> TRUE,
     resyncTimer |-> FALSE, checkTimer |-> TRUE, checkTimerDue |-> checkTimerInterval,
     handlers |-> TRUE, awarenessHandler |-> TRUE, observers |-> TRUE]

\* This Provider alone: no other Provider of the room is part of the state.
NoPeers ==
    /\ peers = <<>>
    /\ flight = <<>>

\* An engine that no Provider owns: `new Awareness(document)` alone.
NoProvider ==
    /\ NoPeers
    /\ provider = Fields
    /\ sockets = <<>>
    /\ timers = 0
    /\ doc = {}
    /\ out = <<>>

Init ==
    /\ states = Constructed.states
    /\ meta = Constructed.meta
    /\ events = Constructed.events
    /\ now = 0
    /\ nextCheck = checkInterval
    /\ timerOn = TRUE
    /\ op = [name |-> "constructor", size |-> 0]
    /\ assignBase = MapGet(Constructed.meta, Self).clock
    /\ assignCount = 0
    /\ budget = MaxCalls
    /\ NoProvider

ClocksBounded(mt) == \A i \in 1..Len(mt) : mt[i].v.clock <= MaxClock

\* An operation other than a local assignment ends the run of assignments.
EndRun(mt) ==
    /\ assignBase' = MapGet(mt, Self).clock
    /\ assignCount' = 0

Commit(r, name, size) ==
    /\ ClocksBounded(r.meta)
    /\ states' = r.states
    /\ meta' = r.meta
    /\ events' = r.events
    /\ op' = [name |-> name, size |-> size]

\* awareness.localState = state
SetLocalState(state) ==
    /\ Commit(SetLocalStateResult(states, meta, state, now), "setLocalState", 1)
    /\ assignCount' = assignCount + 1
    /\ UNCHANGED <<assignBase, now, nextCheck, timerOn>>

\* awareness.removeStates(clients, origin)
RemoveStates(clients, origin) ==
    /\ Commit(RemoveStatesResult(states, meta, clients, origin, now), "removeStates", Len(clients))
    /\ EndRun(meta')
    /\ UNCHANGED <<now, nextCheck, timerOn>>

\* awareness.applyUpdate(update, origin)
ApplyUpdate(update, origin) ==
    /\ Commit(ApplyUpdateResult(states, meta, update, origin, now), "applyUpdate", update[1])
    /\ EndRun(meta')
    /\ UNCHANGED <<now, nextCheck, timerOn>>

\* awareness.destroy(), also run by the document's 'destroy' event; a call
\* after the first one assigns null and clears the interval again.
Destroy ==
    LET r == SetLocalStateResult(states, meta, Null, now)
    IN /\ Commit([r EXCEPT !.events = <<Event("destroy", <<>>, <<>>, <<>>, "awareness")>> \o r.events],
                 "destroy", 0)
       /\ EndRun(meta')
       /\ timerOn' = FALSE
       /\ UNCHANGED <<now, nextCheck>>

(***************************************************************************)
(* The callback of the interval timer.                                     *)
(***************************************************************************)
RenewDueLate(st, mt, t) ==
    localState(st) # Null /\ outdatedTimeout \div 2 < t - MapGet(mt, Self).lastUpdated

RenewDue(st, mt, t) ==
    localState(st) # Null /\ outdatedTimeout \div 2 <= t - MapGet(mt, Self).lastUpdated

OutdatedLate(st, entry, t) ==
    entry.k # Self /\ outdatedTimeout < t - entry.v.lastUpdated /\ MapHas(st, entry.k)

Outdated(st, entry, t) ==
    entry.k # Self /\ outdatedTimeout <= t - entry.v.lastUpdated /\ MapHas(st, entry.k)

CheckResult(st, mt, t) ==
    IF ~MapHas(mt, Self) THEN NoChange(st, mt)
    ELSE LET r1 == IF RenewDue(st, mt, t)
                   THEN SetLocalStateResult(st, mt, localState(st), t)
                   ELSE NoChange(st, mt)
             remove == MapKeys(SelectSeq(r1.meta, LAMBDA entry : Outdated(r1.states, entry, t)))
             r2 == IF Len(remove) > 0
                   THEN RemoveStatesResult(r1.states, r1.meta, remove, "timeout", t)
                   ELSE NoChange(r1.states, r1.meta)
         IN [states |-> r2.states, meta |-> r2.meta, events |-> r1.events \o r2.events]

Sweep ==
    /\ timerOn
    /\ now = nextCheck
    /\ Commit(CheckResult(states, meta, now), "sweep", 0)
    /\ EndRun(meta')
    /\ nextCheck' = nextCheck + checkInterval
    /\ UNCHANGED <<now, timerOn>>

\* Time passes; a running timer fires when it is due, not later.
Advance(limit) ==
    /\ now + TimeStep <= limit
    /\ timerOn => now + TimeStep <= nextCheck
    /\ now' = now + TimeStep
    /\ UNCHANGED <<states, meta, nextCheck, timerOn, events, op, assignBase, assignCount>>

(***************************************************************************)
(* Inputs.                                                                 *)
(***************************************************************************)
JSONTexts == {"null", "{\"name\":\"a\"}", "0"}

CoreClients == {Self, 2}

BlobLens == {0, 1, 2}

LocalValues == {Null, EmptyObj, ObjA}

RecordClocks == {0, 1, 2}

Records == CoreClients \X RecordClocks \X JSONTexts

RECURSIVE Flatten(_)
Flatten(recs) == IF recs = <<>> THEN <<>> ELSE Head(recs) \o Flatten(Tail(recs))

\* The blobs an encoder produces for n records.
BlobsOfLen(n, records) == {<<n>> \o Flatten(recs) : recs \in [1..n -> records]}

\* Records of the blobs of more than one record: a tombstone or an object.
LaterRecords == CoreClients \X RecordClocks \X (JSONTexts \ {"0"})

Blobs ==
    UNION {BlobsOfLen(n, IF n > 1 THEN LaterRecords ELSE Records) : n \in BlobLens}

ClientLists == UNION {[1..n -> CoreClients] : n \in BlobLens}

TimedRecords == Clients \X (RecordClocks \ {0}) \X JSONTexts

TimedBlobs == BlobsOfLen(1, TimedRecords)

TimedLists == {<<c>> : c \in Clients}

(***************************************************************************)
(* Spec: the engine under every call, over a span of time that ends before *)
(* the interval timer can find anything to do.                             *)
(* SpecTimed: the engine over the span of a timeout and more, with the     *)
(* interval timer, under at most MaxCalls calls.                           *)
(***************************************************************************)
Next ==
    \/ \E state \in LocalValues : SetLocalState(state) /\ UNCHANGED <<budget, pvars>>
    \/ \E clients \in ClientLists :
          RemoveStates(clients, "provider") /\ UNCHANGED <<budget, pvars>>
    \/ \E update \in Blobs : ApplyUpdate(update, "provider") /\ UNCHANGED <<budget, pvars>>
    \/ Advance(CoreMaxTime) /\ UNCHANGED <<budget, pvars>>

Spec == Init /\ [][Next]_vars

Call == budget > 0 /\ budget' = budget - 1

NextTimed ==
    \/ \E state \in LocalValues : Call /\ SetLocalState(state) /\ UNCHANGED pvars
    \/ \E clients \in TimedLists :
          Call /\ RemoveStates(clients, "window unload") /\ UNCHANGED pvars
    \/ \E update \in TimedBlobs : Call /\ ApplyUpdate(update, "provider") /\ UNCHANGED pvars
    \/ Call /\ Destroy /\ UNCHANGED pvars
    \/ Sweep /\ UNCHANGED <<budget, pvars>>
    \/ Advance(MaxTime) /\ UNCHANGED <<budget, pvars>>

SpecTimed == Init /\ [][NextTimed]_vars

(***************************************************************************)
(* SpecProvider: the Provider under every handler, at one instant.         *)
(* SpecTransport: the transport of the Provider over the span of a         *)
(* timeout, with the interval timers.                                      *)
(* SpecBackoff: connect, disconnect and the socket events alone, over more *)
(* sockets.                                                                *)
(* SpecDestroy: the Provider before and after destroy().                   *)
(* SpecLifecycle: destroy() of the Provider and of its engine, the unload  *)
(* of the window and the callback of send; in the other specifications    *)
(* the WebSocket class never calls that callback (as the WebSocket of a    *)
(* browser, whose send takes the data alone).                              *)
(*                                                                         *)
(* The WebSocketProvider. A handler is a function from the state of the    *)
(* Provider, its engine, its document and its sockets to the state it      *)
(* leaves; `out` lists, in order, what the handler emitted, sent on a      *)
(* socket, published on the bus and scheduled.                             *)
(*                                                                         *)
(* A frame is the sequence of the fields lib0's Encoder wrote: the message *)
(* type, then for a sync message the sync type and the byte array of the   *)
(* document engine, for an awareness message the blob of encodeUpdate.     *)
(***************************************************************************)
messageSync == 0

messageAwareness == 1

messageAuth == 2

messageQueryAwareness == 3

syncStep1 == 0

syncStep2 == 1

syncUpdate == 2

messagePermissionDenied == 0

maxBackoffTime == 2500

\* `this` as an origin of transactions, awareness updates and bus frames.
This == "provider"

Here ==
    [states |-> states, meta |-> meta, events |-> <<>>, provider |-> provider,
     sockets |-> sockets, timers |-> timers, doc |-> doc, out |-> <<>>, now |-> now]

Out(kind, name, arg, num, data) ==
    [kind |-> kind, name |-> name, arg |-> arg, num |-> num, data |-> data]

Log(s, entry) == [s EXCEPT !.out = Append(@, entry)]

\* Observable.emit(name, [arg]): the event reaches the observers the
\* application registered, unless Observable.destroy() has dropped them.
Emit(s, name, arg) ==
    IF s.provider.observers THEN Log(s, Out("emit", name, arg, 0, <<>>)) ELSE s

BoolText(value) == IF value THEN "true" ELSE "false"

SetSyncedSilent(s, value) == [s EXCEPT !.provider.synced = value]

\* set synced(value)
SetSynced(s, value) ==
    IF s.provider.synced = value THEN s
    ELSE LET s1 == Emit([s EXCEPT !.provider.synced = value], "sync", BoolText(value))
         IN IF value THEN Emit(s1, "synced", BoolText(value)) ELSE s1

(***************************************************************************)
(* The document engine (Yjs), as far as the Provider uses it: a document   *)
(* is the set of its structs; a state vector and an update are byte arrays *)
(* that list structs in order.                                             *)
(***************************************************************************)
RECURSIVE EncodeStructs(_)
EncodeStructs(structs) ==
    IF structs = {} THEN <<>>
    ELSE LET least == CHOOSE x \in structs : \A y \in structs : x <= y
         IN <<least>> \o EncodeStructs(structs \ {least})

DecodeStructs(bytes) == {bytes[i] : i \in 1..Len(bytes)}

\* Y.encodeStateVector(doc)
EncodeStateVector(d) == EncodeStructs(d)

\* Y.encodeStateAsUpdate(doc, encodedStateVector)
EncodeStateAsUpdate(d, encodedStateVector) ==
    EncodeStructs(d \ DecodeStructs(encodedStateVector))

(***************************************************************************)
(* Sockets and the bus.                                                    *)
(***************************************************************************)
\* socket.send(frame)
Send(s, sock, frame) == Log(s, Out("send", "socket", "", sock, frame))

\* socket.close()
Close(s, sock) ==
    Log([s EXCEPT !.sockets[sock].readyState =
                      IF @ \in {"CONNECTING", "OPEN"} THEN "CLOSING" ELSE @],
        Out("close", "socket", "", sock, <<>>))

IsOwnFrameNever(origin) == FALSE

\* if (origin === this) return
IsOwnFrame(origin) == origin = This

\* bc.publish(channel, frame, this): the log entry names the origin. The bus hands the frame to the other
\* subscribers; the subscriber of the Provider gets it with origin this and
\* returns at once (IsOwnFrame), so the call leaves the publish alone.
Publish(s, frame) == Log(s, Out("publish", "bus", This, 0, frame))

\* broadcastMessageBoth(buffer)
BroadcastMessageBoth(s, frame) ==
    LET s1 == IF s.provider.webSocketConnected /\ s.provider.socket # 0
              THEN Send(s, s.provider.socket, frame) ELSE s
    IN IF s1.provider.broadcastConnected THEN Publish(s1, frame) ELSE s1

(***************************************************************************)
(* The listeners the Provider registers on its document and its engine.    *)
(***************************************************************************)
IsOwnUpdateNever(origin) == FALSE

IsOwnUpdate(origin) == origin = This

\* makeUpdateHandler: document.on('update', handler)
UpdateHandler(s, update, origin) ==
    IF IsOwnUpdate(origin) THEN s
    ELSE BroadcastMessageBoth(s, <<messageSync, syncUpdate, update>>)

\* The document engine throws on an update it cannot decode: here, one that
\* lists 0, which is no struct.
DocThrows(update) == \E i \in 1..Len(update) : update[i] < 1

\* Y.applyUpdate(doc, update, origin): the document takes the structs it
\* does not hold and, if there are any, emits 'update' with them.
DocApply(s, update, origin) ==
    LET news == DecodeStructs(update) \ s.doc
        s1 == [s EXCEPT !.doc = @ \cup news]
    IN IF news = {} THEN s
       ELSE IF ~s.provider.handlers THEN s1
       ELSE UpdateHandler(s1, EncodeStructs(news), origin)

\* makeAwarenessHandler: awareness.on('update', handler)
AwarenessHandler(s, event) ==
    LET changedClients == event.added \o event.updated \o event.removed
        encoded == EncodeUpdate(changedClients, s.states, s.meta)
    IN IF ~encoded.ok THEN s
       ELSE BroadcastMessageBoth(s, <<messageAwareness, encoded.data>>)

\* An operation of the engine run by the Provider: r is its result; each
\* 'update' event it emits calls the listener while it is registered.
AwarenessRun(s, r) ==
    LET s1 == [s EXCEPT !.states = r.states, !.meta = r.meta, !.events = @ \o r.events]
        acc[i \in 0..Len(r.events)] ==
            IF i = 0 THEN s1
            ELSE IF r.events[i].name = "update" /\ s.provider.awarenessHandler
                 THEN AwarenessHandler(acc[i - 1], r.events[i])
            ELSE acc[i - 1]
    IN acc[Len(r.events)]

(***************************************************************************)
(* readMessage and the handlers of the message types.                      *)
(***************************************************************************)
MarksSyncedFromAnyChannel(emitSynced, syncMessageType, synced) ==
    syncMessageType = syncStep2 /\ ~synced

\* if (emitSynced && syncMessageType === sync.MessageType.syncStep2 && !this.synced)
MarksSynced(emitSynced, syncMessageType, synced) ==
    emitSynced /\ syncMessageType = syncStep2 /\ ~synced

\* An exception leaves readMessage: the decoder ran out of bytes (a frame is
\* cut between two of its fields), or readSyncMessage met an unknown type.
Thrown(s) == [s |-> s, encoder |-> <<>>, thrown |-> TRUE]

\* The blob of the frame is missing, or the engine throws on it.
ApplyFails(buffer) == Len(buffer) < 3 \/ DocThrows(buffer[3])

ReadSyncStep2Uncaught(s, buffer) ==
    IF ApplyFails(buffer) THEN [s |-> s, thrown |-> TRUE]
    ELSE [s |-> DocApply(s, buffer[3], This), thrown |-> FALSE]

\* readSyncStep2 (and readUpdate): try { Y.applyUpdate(doc,
\* decoder.readVarUint8Array(), transactionOrigin) } catch { console.error }
ReadSyncStep2(s, buffer) ==
    IF ApplyFails(buffer) THEN [s |-> s, thrown |-> FALSE]
    ELSE [s |-> DocApply(s, buffer[3], This), thrown |-> FALSE]

\* readSyncStep1: writeSyncStep2(encoder, doc, decoder.readVarUint8Array())
ReadSyncStep1(s, buffer) ==
    IF Len(buffer) < 3 THEN [encoder |-> <<>>, thrown |-> TRUE]
    ELSE [encoder |-> <<syncStep2, EncodeStateAsUpdate(s.doc, buffer[3])>>, thrown |-> FALSE]

\* readMessageSync, with sync.readSyncMessage
ReadMessageSync(s, buffer, emitSynced) ==
    IF Len(buffer) < 2 THEN Thrown(s)
    ELSE LET syncMessageType == buffer[2]
         IN IF syncMessageType = syncStep1
            THEN IF ReadSyncStep1(s, buffer).thrown THEN Thrown(s)
                 ELSE [s |-> s, encoder |-> <<messageSync>> \o ReadSyncStep1(s, buffer).encoder,
                       thrown |-> FALSE]
            ELSE IF syncMessageType \in {syncStep2, syncUpdate}
            THEN LET applied == ReadSyncStep2(s, buffer)
                 IN IF applied.thrown THEN Thrown(s)
                    ELSE [s |-> IF MarksSynced(emitSynced, syncMessageType,
                                               applied.s.provider.synced)
                                THEN SetSynced(applied.s, TRUE) ELSE applied.s,
                          encoder |-> <<messageSync>>, thrown |-> FALSE]
            ELSE Thrown(s)

\* readMessageQueryAwareness
ReadMessageQueryAwareness(s) ==
    LET encoded == EncodeUpdate(MapKeys(s.states), s.states, s.meta)
    IN [s |-> s,
        encoder |-> IF encoded.ok THEN <<messageAwareness, encoded.data>>
                    ELSE <<messageAwareness>>,
        thrown |-> FALSE]

\* readMessageAwareness: an exception of applyUpdate leaves readMessage with
\* the records applied so far.
AwarenessApplied(s, r) ==
    [s |-> AwarenessRun(s, r), encoder |-> <<>>, thrown |-> r.thrown]

ReadMessageAwareness(s, buffer) ==
    IF Len(buffer) < 2 THEN Thrown(s)
    ELSE AwarenessApplied(s, ApplyUpdateResult(s.states, s.meta, buffer[2], This, s.now))

\* readMessageAuth, with auth.readAuthMessage: the reason is read for the
\* sub-type messagePermissionDenied only; any other sub-type is ignored.
ReadMessageAuth(s, buffer) ==
    IF Len(buffer) < 2 THEN Thrown(s)
    ELSE IF buffer[2] = messagePermissionDenied /\ Len(buffer) < 3 THEN Thrown(s)
    ELSE [s |-> s, encoder |-> <<>>, thrown |-> FALSE]

\* readMessage(buffer, emitSynced): the state left and the reply encoder
ReadMessage(s, buffer, emitSynced) ==
    IF Len(buffer) < 1 THEN Thrown(s)
    ELSE
    LET messageType == buffer[1]
    IN IF messageType = messageSync THEN ReadMessageSync(s, buffer, emitSynced)
       ELSE IF messageType = messageQueryAwareness THEN ReadMessageQueryAwareness(s)
       ELSE IF messageType = messageAwareness THEN ReadMessageAwareness(s, buffer)
       ELSE IF messageType = messageAuth THEN ReadMessageAuth(s, buffer)
       ELSE [s |-> s, encoder |-> <<>>, thrown |-> FALSE]

HasReplyAlways(encoder) == TRUE

\* encoding.length(encoder) > 1
HasReply(encoder) == Len(encoder) > 1

\* makeBroadcastSubscriber: (data, origin) => ...
PublishReply(r) ==
    IF r.thrown \/ ~HasReply(r.encoder) THEN r.s ELSE Publish(r.s, r.encoder)

BroadcastSubscriber(s, data, origin) ==
    IF IsOwnFrame(origin) THEN s ELSE PublishReply(ReadMessage(s, data, FALSE))

(***************************************************************************)
(* The socket and its callbacks.                                           *)
(***************************************************************************)
MaySetupWhateverIntent(p) == p.socket = 0

MaySetupBesideSocket(p) == p.shouldConnect

\* if (!this._shouldConnect || this.socket != null) return
MaySetup(p) == p.shouldConnect /\ p.socket = 0

\* setupWebsocket()
SetupWebsocket(s) ==
    IF ~MaySetup(s.provider) THEN s
    ELSE LET sock == Len(s.sockets) + 1
             s1 == Log([s EXCEPT !.sockets = Append(@, [readyState |-> "CONNECTING",
                                                        opened |-> FALSE,
                                                        sendCallback |-> FALSE]),
                                 !.provider.socket = sock,
                                 !.provider.webSocketConnecting = TRUE,
                                 !.provider.webSocketConnected = FALSE],
                       Out("new", "socket", "", sock, <<>>))
         IN Emit(SetSynced(s1, FALSE), "status", "connecting")

\* socket.onmessage
SendReply(r, sock) ==
    IF ~r.thrown /\ HasReply(r.encoder) THEN Send(r.s, sock, r.encoder) ELSE r.s

OnMessage(s, sock, data) ==
    SendReply(ReadMessage([s EXCEPT !.provider.webSocketLastMessageReceived = s.now],
                          data, TRUE), sock)

BackoffLinear(n) ==
    IF n * 100 < maxBackoffTime THEN n * 100 ELSE maxBackoffTime

\* Math.min(Math.pow(2, webSocketUnsuccessfulReconnects) * 100, maxBackoffTime)
Backoff(n) ==
    IF 2 ^ n * 100 < maxBackoffTime THEN 2 ^ n * 100 ELSE maxBackoffTime

RemotesNone(st) == <<>>

\* Array.from(awareness.states.keys()).filter(client => client !== document.clientID)
Remotes(st) == SelectSeq(MapKeys(st), LAMBDA client : client # Self)

\* socket.onerror
OnError(s, sock) == Emit(s, "connection-error", "")

\* socket.onclose
OnClose(s, sock) ==
    LET s1 == Emit(s, "connection-close", "")
        s2 == [s1 EXCEPT !.provider.socket = 0, !.provider.webSocketConnecting = FALSE]
        s3 == IF s2.provider.webSocketConnected
              THEN LET a == SetSynced([s2 EXCEPT !.provider.webSocketConnected = FALSE], FALSE)
                       b == AwarenessRun(a, RemoveStatesResult(a.states, a.meta,
                                                Remotes(a.states), This, a.now))
                   IN Emit(b, "status", "disconnected")
              ELSE [s2 EXCEPT !.provider.webSocketUnsuccessfulReconnects = @ + 1]
        nextTime == Backoff(s3.provider.webSocketUnsuccessfulReconnects)
    IN Log([s3 EXCEPT !.timers = @ + 1], Out("setTimeout", "setupWebsocket", "", nextTime, <<>>))

OnOpenStillConnecting(s, sock) ==
    LET s1 == Emit([s EXCEPT !.provider.webSocketLastMessageReceived = s.now,
                             !.provider.webSocketConnected = TRUE,
                             !.provider.webSocketUnsuccessfulReconnects = 0],
                   "status", "connected")
        s2 == [Send(s1, sock, <<messageSync, syncStep1, EncodeStateVector(s1.doc)>>)
                  EXCEPT !.sockets[sock].sendCallback = TRUE]
        encoded == EncodeUpdate(<<Self>>, s2.states, s2.meta)
    IN IF localState(s2.states) # Null /\ encoded.ok
       THEN Send(s2, sock, <<messageAwareness, encoded.data>>)
       ELSE s2

OnOpenAlwaysAnnounces(s, sock) ==
    LET s1 == Emit([s EXCEPT !.provider.webSocketLastMessageReceived = s.now,
                             !.provider.webSocketConnecting = FALSE,
                             !.provider.webSocketConnected = TRUE,
                             !.provider.webSocketUnsuccessfulReconnects = 0],
                   "status", "connected")
        s2 == [Send(s1, sock, <<messageSync, syncStep1, EncodeStateVector(s1.doc)>>)
                  EXCEPT !.sockets[sock].sendCallback = TRUE]
        encoded == EncodeUpdate(<<Self>>, s2.states, s2.meta)
    IN Send(s2, sock, <<messageAwareness, encoded.data>>)

\* socket.onopen; the first send takes a callback, which the socket calls
\* later (sendCallback: it has not been called yet).
OnOpen(s, sock) ==
    LET s1 == Emit([s EXCEPT !.provider.webSocketLastMessageReceived = s.now,
                             !.provider.webSocketConnecting = FALSE,
                             !.provider.webSocketConnected = TRUE,
                             !.provider.webSocketUnsuccessfulReconnects = 0],
                   "status", "connected")
        s2 == [Send(s1, sock, <<messageSync, syncStep1, EncodeStateVector(s1.doc)>>)
                  EXCEPT !.sockets[sock].sendCallback = TRUE]
        encoded == EncodeUpdate(<<Self>>, s2.states, s2.meta)
    IN IF localState(s2.states) # Null /\ encoded.ok
       THEN Send(s2, sock, <<messageAwareness, encoded.data>>)
       ELSE s2

\* The callback of the first send of onopen: error => { if (error != null)
\* socket.close() }
OnSent(s, sock, error) ==
    LET s1 == [s EXCEPT !.sockets[sock].sendCallback = FALSE]
    IN IF error THEN Close(s1, sock) ELSE s1

(***************************************************************************)
(* The bus, connect and disconnect, and the watchdog.                      *)
(***************************************************************************)
ConnectBroadcastWithoutState(s) ==
    IF ~s.provider.enableBroadcast THEN s
    ELSE LET s1 == IF ~s.provider.broadcastConnected
                   THEN Log([s EXCEPT !.provider.broadcastConnected = TRUE],
                            Out("subscribe", "bus", "", 0, <<>>))
                   ELSE s
             s2 == Publish(s1, <<messageSync, syncStep1, EncodeStateVector(s1.doc)>>)
             s4 == Publish(s2, <<messageQueryAwareness>>)
             encoded == EncodeUpdate(<<Self>>, s4.states, s4.meta)
         IN IF ~encoded.ok THEN s4
            ELSE Publish(s4, <<messageAwareness, encoded.data>>)

\* connectBroadcast()
ConnectBroadcast(s) ==
    IF ~s.provider.enableBroadcast THEN s
    ELSE LET s1 == IF ~s.provider.broadcastConnected
                   THEN Log([s EXCEPT !.provider.broadcastConnected = TRUE],
                            Out("subscribe", "bus", "", 0, <<>>))
                   ELSE s
             s2 == Publish(s1, <<messageSync, syncStep1, EncodeStateVector(s1.doc)>>)
             s3 == Publish(s2, <<messageSync, syncStep2, EncodeStateAsUpdate(s2.doc, <<>>)>>)
             s4 == Publish(s3, <<messageQueryAwareness>>)
             encoded == EncodeUpdate(<<Self>>, s4.states, s4.meta)
         IN IF ~encoded.ok THEN s4
            ELSE Publish(s4, <<messageAwareness, encoded.data>>)

\* disconnectBroadcast()
DisconnectBroadcast(s) ==
    LET encoded == EncodeUpdate(<<Self>>, EmptyMap, s.meta)
        s1 == BroadcastMessageBoth(s, <<messageAwareness, encoded.data>>)
    IN IF ~encoded.ok THEN s
       ELSE IF s1.provider.broadcastConnected
       THEN Log([s1 EXCEPT !.provider.broadcastConnected = FALSE],
                Out("unsubscribe", "bus", "", 0, <<>>))
       ELSE s1

\* disconnect()
DisconnectResult(s) ==
    LET s1 == DisconnectBroadcast([s EXCEPT !.provider.shouldConnect = FALSE])
    IN IF s1.provider.socket # 0 THEN Close(s1, s1.provider.socket) ELSE s1

\* connectWebSocket()
ConnectResult(s) ==
    LET s1 == [s EXCEPT !.provider.shouldConnect = TRUE]
    IN IF ~s1.provider.webSocketConnected /\ s1.provider.socket = 0
       THEN ConnectBroadcast(SetupWebsocket(s1))
       ELSE s1

CheckTimerResultAtTimeout(s) ==
    IF /\ s.provider.webSocketConnected
       /\ messageReconnectTimeout <= s.now - s.provider.webSocketLastMessageReceived
       /\ s.provider.socket # 0
    THEN Close(s, s.provider.socket)
    ELSE s

\* makeCheckTimer: the callback of the interval
CheckTimerResult(s) ==
    IF /\ s.provider.webSocketConnected
       /\ messageReconnectTimeout < s.now - s.provider.webSocketLastMessageReceived
       /\ s.provider.socket # 0
    THEN Close(s, s.provider.socket)
    ELSE s

\* makeResyncTimer: the callback of the interval
ResyncTimerResult(s) ==
    IF s.provider.socket = 0 THEN s
    ELSE IF s.sockets[s.provider.socket].readyState # "OPEN" THEN s
    ELSE Send(s, s.provider.socket, <<messageSync, syncStep1, EncodeStateVector(s.doc)>>)

\* makeUnloadHandler: the handler of 'unload' and of 'exit'
UnloadHandler(s) ==
    AwarenessRun(s, RemoveStatesResult(s.states, s.meta, <<Self>>, "window unload", s.now))

\* Awareness.destroy() under the Provider: the listener of the Provider hears
\* the update of the last assignment, then the engine drops every listener.
AwarenessDestroyResult(s) ==
    LET r == SetLocalStateResult(s.states, s.meta, Null, s.now)
        s1 == AwarenessRun(s, [r EXCEPT !.events =
                                  <<Event("destroy", <<>>, <<>>, <<>>, "awareness")>> \o r.events])
    IN [s1 EXCEPT !.provider.awarenessHandler = FALSE]

\* destroy(): the engine is not touched.
DestroyResult(s) ==
    LET s1 == DisconnectResult([s EXCEPT !.provider.resyncTimer = FALSE,
                                         !.provider.checkTimer = FALSE])
    IN [s1 EXCEPT !.provider.handlers = FALSE, !.provider.awarenessHandler = FALSE,
                  !.provider.observers = FALSE]

(***************************************************************************)
(* The Provider after its constructor, and its handlers as actions.        *)
(***************************************************************************)
\* new WebSocketProvider({ doc, config }): the engine is created before the
\* listeners are registered; connectOnLaunch calls connectWebSocket().
ProviderConstructed(connectOnLaunch, enableBroadcast) ==
    LET s == [states |-> Constructed.states, meta |-> Constructed.meta,
              events |-> Constructed.events,
              provider |-> [Fields EXCEPT !.shouldConnect = connectOnLaunch,
                                          !.enableBroadcast = enableBroadcast],
              sockets |-> <<>>, timers |-> 0, doc |-> {}, out |-> <<>>, now |-> 0]
    IN IF connectOnLaunch THEN ConnectResult(s) ELSE s

\* The state the constructor leaves; resync: config.resyncInterval > 0.
InitWith(resync) ==
    \E connectOnLaunch \in BOOLEAN, enableBroadcast \in BOOLEAN :
        LET s == ProviderConstructed(connectOnLaunch, enableBroadcast)
        IN /\ states = s.states
           /\ meta = s.meta
           /\ events = s.events
           /\ provider = [s.provider EXCEPT !.resyncTimer = resync]
           /\ sockets = s.sockets
           /\ timers = s.timers
           /\ doc = s.doc
           /\ out = s.out
           /\ now = 0
           /\ nextCheck = checkInterval
           /\ timerOn = TRUE
           /\ op = [name |-> "constructor", size |-> 0]
           /\ assignBase = MapGet(s.meta, Self).clock
           /\ assignCount = 0
           /\ budget = MaxCalls
           /\ NoPeers

InitProvider == InitWith(FALSE)

\* A handler has run and left s.
Handled(s, name, size) ==
    /\ ClocksBounded(s.meta)
    /\ states' = s.states
    /\ meta' = s.meta
    /\ events' = s.events
    /\ provider' = s.provider
    /\ sockets' = s.sockets
    /\ timers' = s.timers
    /\ doc' = s.doc
    /\ out' = s.out
    /\ op' = [name |-> name, size |-> size]
    /\ UNCHANGED <<now, assignBase, assignCount, budget, peers, flight>>

\* A handler that leaves the interval timer of the engine alone.
Handle(s, name, size) == Handled(s, name, size) /\ UNCHANGED timerOn

\* provider.connectWebSocket()
Connect == Handle(ConnectResult(Here), "connect", 0) /\ UNCHANGED nextCheck

\* provider.disconnect()
Disconnect == Handle(DisconnectResult(Here), "disconnect", 0) /\ UNCHANGED nextCheck

\* The connection of a socket is established.
SocketOpen(sock) ==
    /\ sockets[sock].readyState = "CONNECTING"
    /\ Handle(OnOpen([Here EXCEPT !.sockets[sock].readyState = "OPEN",
                                  !.sockets[sock].opened = TRUE], sock), "open", sock)
    /\ UNCHANGED nextCheck

\* The socket calls the callback of the first send of onopen, with an error
\* or without one.
SocketSent(sock, error) ==
    /\ sockets[sock].sendCallback
    /\ Handle(OnSent(Here, sock, error), "sent", sock)
    /\ UNCHANGED nextCheck

\* A socket closes: the connection failed, was lost, or close() completed.
SocketClose(sock) ==
    /\ sockets[sock].readyState # "CLOSED"
    /\ Handle(OnClose([Here EXCEPT !.sockets[sock].readyState = "CLOSED"], sock), "close", sock)
    /\ UNCHANGED nextCheck

\* A frame arrives on a socket that is open, or closing after it was open.
SocketMessage(sock, data) ==
    /\ sockets[sock].readyState \in {"OPEN", "CLOSING"}
    /\ sockets[sock].opened
    /\ Handle(OnMessage(Here, sock, data), "message", sock)
    /\ UNCHANGED nextCheck

\* A frame of another subscriber arrives on the bus.
BusMessage(data) ==
    /\ provider.broadcastConnected
    /\ Handle(BroadcastSubscriber(Here, data, "broadcastchannel"), "bus", 0)
    /\ UNCHANGED nextCheck

\* A reconnect timeout fires: setTimeout(() => { this.setupWebsocket() }, nextTime)
ReconnectTimer ==
    /\ timers > 0
    /\ Handle(SetupWebsocket([Here EXCEPT !.timers = @ - 1]), "timer", 0)
    /\ UNCHANGED nextCheck

\* The application changes the document.
LocalEdit(struct) ==
    /\ struct \notin doc
    /\ Handle(DocApply(Here, <<struct>>, "local"), "edit", struct)
    /\ UNCHANGED nextCheck

\* The application assigns awareness.localState.
LocalAwareness(state) ==
    /\ Handle(AwarenessRun(Here, SetLocalStateResult(states, meta, state, now)), "setLocalState", 1)
    /\ UNCHANGED nextCheck

\* The interval timer of the engine fires: the sweeper runs, and the
\* listener of the Provider hears its events.
Tick ==
    /\ timerOn
    /\ now = nextCheck
    /\ Handle(AwarenessRun(Here, CheckResult(states, meta, now)), "tick", 0)
    /\ nextCheck' = nextCheck + checkInterval

\* The check timer of the Provider fires, unless destroy() has cleared it.
\* Of two intervals due at the same time the one set first, that of the
\* engine, is called first; other handlers may run between the two.
CheckTimer ==
    /\ provider.checkTimer
    /\ now = provider.checkTimerDue
    /\ timerOn => now < nextCheck
    /\ Handle(CheckTimerResult([Here EXCEPT !.provider.checkTimerDue = @ + checkTimerInterval]),
              "check", 0)
    /\ UNCHANGED nextCheck

\* Time passes no further than the check timer, while it runs, is due.
CheckTimerWaits == provider.checkTimer => now + TimeStep <= provider.checkTimerDue

\* provider.destroy()
DestroyProvider == Handle(DestroyResult(Here), "destroy", 0) /\ UNCHANGED nextCheck

\* provider.synced = value, the public setter called from outside the
\* Provider.
AssignSynced(value) == Handle(SetSynced(Here, value), "synced", 0) /\ UNCHANGED nextCheck

\* A socket that has not closed reports an error.
SocketError(sock) ==
    /\ sockets[sock].readyState # "CLOSED"
    /\ Handle(OnError(Here, sock), "error", sock)
    /\ UNCHANGED nextCheck

\* The window unloads or the process exits, while the handler is registered.
Unload ==
    /\ provider.handlers
    /\ Handle(UnloadHandler(Here), "unload", 0)
    /\ UNCHANGED nextCheck

\* provider.awareness.destroy(), called by the application or by the
\* destroy event of the document.
DestroyAwareness ==
    /\ Handled(AwarenessDestroyResult(Here), "awarenessDestroy", 0)
    /\ timerOn' = FALSE
    /\ UNCHANGED nextCheck

\* The resync interval fires.
Resync ==
    /\ provider.resyncTimer
    /\ Handle(ResyncTimerResult(Here), "resync", 0)
    /\ UNCHANGED nextCheck

(***************************************************************************)
(* Inputs of the Provider.                                                 *)
(***************************************************************************)
LocalStruct == 1

RemoteStruct == 2

\* A sub-type of auth messages that readAuthMessage does not know.
UnknownAuth == 5

\* A blob that announces two records and holds one.
CutBlob == <<2, 2, 1, "{\"name\":\"a\"}">>

ProviderRecords == {<<2, 1, "{\"name\":\"a\"}">>, <<2, 2, "null">>, <<Self, 1, "null">>}

Frames ==
    {<<messageSync, syncStep1, sv>> : sv \in {<<>>, <<LocalStruct>>}}
    \cup {<<messageSync, sub, <<RemoteStruct>>>> : sub \in {syncStep2, syncUpdate}}
    \cup {<<messageQueryAwareness>>, <<messageAuth, messagePermissionDenied, "denied">>,
          <<messageAuth, UnknownAuth>>}
    \cup {<<messageSync, syncStep2, <<0>>>>}
    \cup {<<messageAwareness, blob>> : blob \in BlobsOfLen(1, ProviderRecords)}
    \cup {<<messageAwareness, CutBlob>>}

SocketIds == 1..Len(sockets)

\* No more than limit sockets are created.
Within(limit) == Len(sockets') <= limit

\* The steps in which synced is written by the Provider alone: the setter
\* is called by readMessageSync, setupWebsocket and onclose.
NextSyncedByProvider ==
    \/ Connect /\ Within(MaxEpochs)
    \/ Disconnect
    \/ \E sock \in SocketIds : SocketOpen(sock)
    \/ \E sock \in SocketIds : SocketClose(sock)
    \/ \E sock \in SocketIds, data \in Frames : SocketMessage(sock, data)
    \/ \E data \in Frames : BusMessage(data)
    \/ ReconnectTimer /\ Within(MaxEpochs)
    \/ LocalEdit(LocalStruct)
    \/ \E state \in {Null, ObjA} : LocalAwareness(state)
    \/ \E sock \in SocketIds : SocketError(sock)
    \/ Unload
    \/ DestroyAwareness

SpecSyncedByProvider == InitProvider /\ [][NextSyncedByProvider]_vars

\* The same steps and, beside them, an assignment of synced from outside.
NextProvider ==
    \/ NextSyncedByProvider
    \/ \E value \in BOOLEAN : AssignSynced(value)

SpecProvider == InitProvider /\ [][NextProvider]_vars

NextTransport ==
    \/ Connect /\ Within(MaxSockets)
    \/ Disconnect
    \/ \E sock \in SocketIds : SocketOpen(sock)
    \/ \E sock \in SocketIds : SocketClose(sock)
    \/ \E sock \in SocketIds : SocketMessage(sock, <<messageQueryAwareness>>)
    \/ ReconnectTimer /\ Within(MaxSockets)
    \/ Tick
    \/ CheckTimer
    \/ Advance(MaxTime) /\ CheckTimerWaits /\ UNCHANGED <<budget, pvars>>

SpecTransport == InitProvider /\ [][NextTransport]_vars

NextBackoff ==
    \/ Connect /\ Within(MaxAttempts)
    \/ Disconnect
    \/ \E sock \in SocketIds : SocketOpen(sock)
    \/ \E sock \in SocketIds : SocketClose(sock)
    \/ ReconnectTimer /\ Within(MaxAttempts)

SpecBackoff == InitProvider /\ [][NextBackoff]_vars

LiveFrames ==
    {<<messageSync, syncStep2, <<RemoteStruct>>>>,
     <<messageAwareness, <<1, 2, 1, "{\"name\":\"a\"}">>>>}

\* A Provider constructed with a resync interval.
InitResync == InitWith(TRUE)

\* The Provider before and after destroy(): onmessage, onopen and onclose
\* stay on the socket, and connectWebSocket() can be called again.
NextDestroy ==
    \/ Connect /\ Within(MaxEpochs)
    \/ DestroyProvider
    \/ DestroyAwareness
    \/ \E sock \in SocketIds : SocketOpen(sock)
    \/ \E sock \in SocketIds : SocketClose(sock)
    \/ \E sock \in SocketIds, data \in LiveFrames : SocketMessage(sock, data)
    \/ ReconnectTimer /\ Within(MaxEpochs)
    \/ LocalEdit(LocalStruct)
    \/ LocalAwareness(ObjA)
    \/ Resync
    \/ Tick
    \/ CheckTimer
    \/ Advance(checkInterval) /\ CheckTimerWaits /\ UNCHANGED <<budget, pvars>>

SpecDestroy == InitResync /\ [][NextDestroy]_vars

\* The ends of the Provider and of its engine: destroy() of either, the
\* unload of the window, and the callback of send on the sockets.
NextLifecycle ==
    \/ Connect /\ Within(MaxEpochs)
    \/ DestroyProvider
    \/ DestroyAwareness
    \/ Unload
    \/ \E sock \in SocketIds : SocketOpen(sock)
    \/ \E sock \in SocketIds : SocketClose(sock)
    \/ \E sock \in SocketIds, error \in BOOLEAN : SocketSent(sock, error)
    \/ ReconnectTimer /\ Within(MaxEpochs)
    \/ LocalAwareness(ObjA)
    \/ Tick
    \/ CheckTimer
    \/ Advance(checkInterval) /\ CheckTimerWaits /\ UNCHANGED <<budget, pvars>>

SpecLifecycle == InitProvider /\ [][NextLifecycle]_vars

(***************************************************************************)
(* Vocabulary of the properties.                                           *)
(***************************************************************************)
Range(seq) == {seq[i] : i \in 1..Len(seq)}

KnownClock(mt, client) == IF MapHas(mt, client) THEN MapGet(mt, client).clock ELSE 0

MetaEntry(mt, client) ==
    IF MapHas(mt, client) THEN MapGet(mt, client) ELSE [clock |-> -1, lastUpdated |-> -1]

Listed(evs, client) ==
    \E i \in 1..Len(evs) :
        client \in Range(evs[i].added) \cup Range(evs[i].updated) \cup Range(evs[i].removed)

SameEntry(st1, mt1, st2, mt2, client) ==
    /\ MapGet(st1, client) = MapGet(st2, client)
    /\ MetaEntry(mt1, client) = MetaEntry(mt2, client)

RecordsOf(update) == {ReadRecord(update, i) : i \in 1..update[1]}

Applied(update) == ApplyUpdateResult(states, meta, update, "provider", now)

\* The rule of acceptance as the specification states it.
ShouldAccept(st, mt, rec) ==
    \/ rec.clock > KnownClock(mt, rec.clientID)
    \/ /\ rec.clock = KnownClock(mt, rec.clientID)
       /\ rec.state = Null
       /\ rec.clientID \in Range(MapKeys(st))

(***************************************************************************)
(* C1: applyUpdate takes a record (client, clock, state) exactly when      *)
(* clock is above the known clock of the client (0 without a meta entry),  *)
(* or equals it while state is null and states holds the client. A record  *)
(* taken is written to meta with the time of the call; a client none of    *)
(* whose records is to be taken keeps its entries and is listed in no      *)
(* event, and a blob with no such record emits nothing.                    *)
(***************************************************************************)
C1_AcceptanceRule ==
    \A update \in Blobs :
        LET r == Applied(update)
        IN /\ update[1] = 1 =>
                LET rec == ReadRecord(update, 1)
                IN IF ShouldAccept(states, meta, rec)
                   THEN /\ MapHas(r.meta, rec.clientID)
                        /\ MapGet(r.meta, rec.clientID).lastUpdated = now
                        /\ MapGet(r.meta, rec.clientID).clock >= rec.clock
                        /\ rec.state # Null => MapGet(r.states, rec.clientID) = rec.state
                        /\ \/ r.meta # meta
                           \/ r.states # states
                   ELSE r.states = states /\ r.meta = meta /\ r.events = <<>>
           /\ \A client \in CoreClients :
                (\A rec \in RecordsOf(update) :
                    rec.clientID = client => ~ShouldAccept(states, meta, rec))
                => /\ SameEntry(r.states, r.meta, states, meta, client)
                   /\ ~Listed(r.events, client)
           /\ (\A rec \in RecordsOf(update) : ~ShouldAccept(states, meta, rec))
                => r.states = states /\ r.meta = meta /\ r.events = <<>>

\* A blob of one record was applied and dropped: both clients are still in
\* states, so no tombstone was written, and nothing was emitted.
C1_Witness ==
    /\ op = [name |-> "applyUpdate", size |-> 1]
    /\ events = <<>>
    /\ \A client \in CoreClients : MapHas(states, client) /\ KnownClock(meta, client) > 0

(***************************************************************************)
(* C2: self-defense. When applyUpdate takes a null record for the local    *)
(* client while the local state is non-null, the local state stays in      *)
(* states unchanged and meta[self].clock becomes the clock of the record   *)
(* plus one.                                                               *)
(***************************************************************************)
C2_SelfDefense ==
    \A update \in BlobsOfLen(1, Records) :
        LET rec == ReadRecord(update, 1)
            r == Applied(update)
        IN (/\ rec.clientID = Self
            /\ rec.state = Null
            /\ ShouldAccept(states, meta, rec)
            /\ localState(states) # Null)
           => /\ MapGet(r.states, Self) = MapGet(states, Self)
              /\ MapKeys(r.states) = MapKeys(states)
              /\ MapGet(r.meta, Self).clock = rec.clock + 1

\* A null record for the local client was taken (it is listed as removed)
\* and the local state is still there, under a raised clock.
C2_Witness ==
    /\ op = [name |-> "applyUpdate", size |-> 1]
    /\ \E i \in 1..Len(events) : events[i].removed = <<Self>>
    /\ localState(states) # Null
    /\ KnownClock(meta, Self) = 2

(***************************************************************************)
(* C3 as stated: while the local state is non-null, nothing but a local    *)
(* assignment, removeStates and destroy removes or changes states[self];   *)
(* applyUpdate in particular does not.                                     *)
(***************************************************************************)
LocalValueChanges == MapGet(states', Self) # MapGet(states, Self)

C3_LocalEntryAuthoritative ==
    [][(localState(states) # Null /\ LocalValueChanges)
         => op'.name \in {"setLocalState", "removeStates", "destroy"}]_vars

(***************************************************************************)
(* C3 amended: while the local state is non-null, a null record never      *)
(* removes or changes states[self]; applyUpdate changes states[self] only  *)
(* by a record for the local client that carries a non-null state and a    *)
(* clock above meta[self].clock, which replaces the value. Besides such a  *)
(* record only a local assignment, removeStates and destroy change it; the *)
(* sweeper does not.                                                       *)
(***************************************************************************)
C3_NullNeverRemovesLocal ==
    [][(localState(states) # Null /\ LocalValueChanges)
         => \/ op'.name \in {"setLocalState", "removeStates", "destroy"}
            \/ /\ op'.name = "applyUpdate"
               /\ MapHas(states', Self)
               /\ KnownClock(meta', Self) > KnownClock(meta, Self)
               /\ \E i \in 1..Len(events') :
                     events'[i].name = "update" /\ Self \in Range(events'[i].updated)]_vars

\* A record of a remote peer has replaced the value of the local entry.
C3_Witness ==
    /\ op.name = "applyUpdate"
    /\ \E i \in 1..Len(events) : events[i].updated = <<Self>> /\ events[i].origin = "provider"
    /\ MapGet(states, Self) = ObjA
    /\ timerOn

(***************************************************************************)
(* C4: n assignments of the local state in a row, whatever the values,     *)
(* leave meta[self].clock at its value before the run plus n.              *)
(***************************************************************************)
C4_AssignmentsCount ==
    /\ MapHas(meta, Self)
    /\ MapGet(meta, Self).clock = assignBase + assignCount

\* Two assignments in a row, the second of null.
C4_Witness ==
    /\ assignCount = 2
    /\ op.name = "setLocalState"
    /\ ~MapHas(states, Self)

(***************************************************************************)
(* C5: no clock of meta ever decreases and no meta entry is ever deleted,  *)
(* under local assignments, removeStates, applyUpdate and sweeper ticks;   *)
(* meta[self].clock strictly increases on every local assignment, on every *)
(* removal of the local client and on every accepted remote attempt to     *)
(* null the local client.                                                  *)
(***************************************************************************)
ClocksGrow(mt1, mt2) ==
    \A i \in 1..Len(mt1) :
        MapHas(mt2, mt1[i].k) /\ MapGet(mt2, mt1[i].k).clock >= mt1[i].v.clock

LocalClockRises(mt2) == KnownClock(mt2, Self) > KnownClock(meta, Self)

C5_ClocksMonotone ==
    /\ \A update \in Blobs : ClocksGrow(meta, Applied(update).meta)
    /\ \A state \in LocalValues :
          ClocksGrow(meta, SetLocalStateResult(states, meta, state, now).meta)
    /\ \A clients \in ClientLists :
          ClocksGrow(meta, RemoveStatesResult(states, meta, clients, "provider", now).meta)
    /\ ClocksGrow(meta, CheckResult(states, meta, now).meta)

C5_ClockDiscipline ==
    /\ C5_ClocksMonotone
    /\ \A state \in LocalValues :
          LocalClockRises(SetLocalStateResult(states, meta, state, now).meta)
    /\ \A clients \in ClientLists :
          (MapHas(states, Self) /\ Self \in Range(clients))
          => LocalClockRises(RemoveStatesResult(states, meta, clients, "provider", now).meta)
    /\ \A update \in BlobsOfLen(1, Records) :
          LET rec == ReadRecord(update, 1)
          IN (rec.clientID = Self /\ rec.state = Null /\ ShouldAccept(states, meta, rec))
             => LocalClockRises(Applied(update).meta)

(***************************************************************************)
(* C6: every client id that is a key of states is a key of meta.           *)
(***************************************************************************)
C6_StatesWithinMeta == \A i \in 1..Len(states) : MapHas(meta, states[i].k)

\* A tombstone: a remote client known to meta only, beside a live entry.
C6_Witness ==
    /\ \E client \in CoreClients \ {Self} : MapHas(meta, client) /\ ~MapHas(states, client)
    /\ MapHas(states, Self)
    /\ op.name = "applyUpdate"

(***************************************************************************)
(* C7: applyUpdate is idempotent. Applying a blob a second time right      *)
(* after the first, or later, changes neither states nor meta (clocks and  *)
(* lastUpdated) and emits no event.                                        *)
(***************************************************************************)
C7_ApplyIdempotent ==
    \A update \in Blobs :
        LET first == Applied(update)
        IN \A later \in {now, now + TimeStep} :
              LET second == ApplyUpdateResult(first.states, first.meta, update, "provider", later)
              IN /\ second.states = first.states
                 /\ second.meta = first.meta
                 /\ second.events = <<>>

\* A blob that names the local client twice, with null, was applied: both
\* records were taken and the local state defended.
C7_Witness ==
    /\ op = [name |-> "applyUpdate", size |-> 2]
    /\ \E i \in 1..Len(events) : events[i].removed = <<Self, Self>>
    /\ localState(states) # Null

(***************************************************************************)
(* C8: round trip of encodeUpdate. For every list of client ids with known *)
(* clocks, decoding the blob of encodeUpdate yields the triples (id,       *)
(* clock, state) of the engine for the listed ids, with null for an id     *)
(* that is in meta and not in states; a list with an id of unknown clock   *)
(* yields no blob.                                                         *)
(***************************************************************************)
EngineTriple(client) ==
    [clientID |-> client,
     clock |-> MapGet(meta, client).clock,
     state |-> IF MapHas(states, client) THEN MapGet(states, client) ELSE Null]

C8_EncodeRoundTrip ==
    \A clients \in ClientLists :
        LET encoded == EncodeUpdate(clients, states, meta)
        IN /\ encoded.ok <=> \A client \in Range(clients) : MapHas(meta, client)
           /\ encoded.ok =>
                DecodeUpdate(encoded.data) = [i \in 1..Len(clients) |-> EngineTriple(clients[i])]

(***************************************************************************)
(* The steps of the interval timer, and the events of one origin.          *)
(***************************************************************************)
IsSweep == nextCheck' # nextCheck

EventsFrom(evs, origin) == SelectSeq(evs, LAMBDA e : e.origin = origin)

Age(client) == now - MapGet(meta, client).lastUpdated

(***************************************************************************)
(* C9: timeout eviction. A sweeper tick removes from states every remote   *)
(* client that is in states and whose lastUpdated is at least              *)
(* outdatedTimeout old, and no other client; it then emits a change and an *)
(* update event with exactly those ids as removed and origin "timeout".    *)
(* So, while the timer runs, no remote entry of states is older than       *)
(* outdatedTimeout plus one sweep period, and the sweeper never evicts the *)
(* local entry.                                                            *)
(***************************************************************************)
DueRemotes == {client \in RemoteClients : MapHas(states, client) /\ outdatedTimeout <= Age(client)}

C9_SweepEvicts ==
    IsSweep =>
        /\ \A client \in DueRemotes : ~MapHas(states', client)
        /\ \A client \in Clients \ DueRemotes : MapHas(states', client) <=> MapHas(states, client)
        /\ LET timeout == EventsFrom(events', "timeout")
           IN IF DueRemotes = {} THEN timeout = <<>>
              ELSE /\ Len(timeout) = 2
                   /\ timeout[1].name = "change"
                   /\ timeout[2].name = "update"
                   /\ \A i \in 1..2 :
                         /\ Range(timeout[i].removed) = DueRemotes
                         /\ Len(timeout[i].removed) = Cardinality(DueRemotes)
                         /\ timeout[i].added = <<>>
                         /\ timeout[i].updated = <<>>

C9_RemoteAgeBounded ==
    timerOn => \A client \in RemoteClients :
                   MapHas(states, client) => Age(client) <= outdatedTimeout + checkInterval

C9_TimeoutEviction == [](C9_RemoteAgeBounded) /\ [][C9_SweepEvicts]_vars

\* A sweep has evicted client 2 alone and announced it; client 3, heard of
\* later, stays.
C9_Witness ==
    /\ op.name = "sweep"
    /\ EventsFrom(events, "timeout") =
          <<Event("change", <<>>, <<>>, <<2>>, "timeout"),
            Event("update", <<>>, <<>>, <<2>>, "timeout")>>
    /\ ~MapHas(states, 2)
    /\ MapHas(states, 3)

(***************************************************************************)
(* C10: keep-alive. A sweeper tick at which the local state is non-null    *)
(* and meta[self].lastUpdated is at least outdatedTimeout / 2 old assigns  *)
(* the local state to itself: the value stays, meta[self].clock rises by   *)
(* one, lastUpdated becomes the time of the tick, and one update event of  *)
(* origin "local" lists the local client as updated, with no change event. *)
(* So, while the timer runs, a non-null local state is never older than    *)
(* outdatedTimeout / 2 plus one sweep period.                              *)
(***************************************************************************)
C10_SweepRenews ==
    (/\ IsSweep
     /\ localState(states) # Null
     /\ outdatedTimeout \div 2 <= Age(Self))
    => /\ MapGet(states', Self) = MapGet(states, Self)
       /\ MapGet(meta', Self) = [clock |-> MapGet(meta, Self).clock + 1, lastUpdated |-> now]
       /\ EventsFrom(events', "local") = <<Event("update", <<>>, <<Self>>, <<>>, "local")>>

C10_LocalAgeBounded ==
    (timerOn /\ localState(states) # Null)
    => Age(Self) <= outdatedTimeout \div 2 + checkInterval

C10_KeepAlive == [](C10_LocalAgeBounded) /\ [][C10_SweepRenews]_vars

\* A sweep has renewed the local state for the second time.
C10_Witness ==
    /\ op.name = "sweep"
    /\ events = <<Event("update", <<>>, <<Self>>, <<>>, "local")>>
    /\ MapGet(meta, Self) = [clock |-> 2, lastUpdated |-> now]
    /\ now >= outdatedTimeout

(***************************************************************************)
(* Vocabulary of the properties of the Provider.                           *)
(***************************************************************************)
Emitted(o, name, arg) ==
    Len(SelectSeq(o, LAMBDA e : e.kind = "emit" /\ e.name = name /\ e.arg = arg))

EmittedAny(o, name) == Len(SelectSeq(o, LAMBDA e : e.kind = "emit" /\ e.name = name))

\* The sockets on which a frame can arrive.
Receiving ==
    {sock \in SocketIds : sockets[sock].readyState \in {"OPEN", "CLOSING"} /\ sockets[sock].opened}

Step2Frames == {frame \in Frames : frame[1] = messageSync /\ frame[2] = syncStep2}

(***************************************************************************)
(* C11: handshake. A socket is created with synced false; the first        *)
(* sync/syncStep2 frame that arrives on it sets synced and emits           *)
(* sync(true) and synced(true) once each; a syncStep2 frame that arrives   *)
(* while synced is set emits neither; and synced, once set, stays set      *)
(* until the socket closes. So synced rises exactly once in the epoch of   *)
(* a socket that receives a syncStep2 frame. Stated of the runs in which   *)
(* the Provider alone writes synced (SpecSyncedByProvider): an assignment  *)
(* from outside sets synced beside a connecting socket and clears it       *)
(* before the close.                                                       *)
(***************************************************************************)
C11_Step2 ==
    \A sock \in Receiving, frame \in Step2Frames :
        LET after == OnMessage(Here, sock, frame)
        IN /\ after.provider.synced
           /\ Emitted(after.out, "sync", "true") = (IF provider.synced THEN 0 ELSE 1)
           /\ Emitted(after.out, "synced", "true") = (IF provider.synced THEN 0 ELSE 1)
           /\ Emitted(after.out, "sync", "false") = 0

C11_FreshEpoch ==
    \A sock \in SocketIds : sockets[sock].readyState = "CONNECTING" => ~provider.synced

C11_SetUntilClose ==
    (provider.synced /\ ~provider'.synced) => op'.name = "close"

C11_Handshake == [](C11_Step2 /\ C11_FreshEpoch) /\ [][C11_SetUntilClose]_vars

\* The second socket has received its first syncStep2 frame.
C11_Witness ==
    /\ op = [name |-> "message", size |-> 2]
    /\ provider.synced
    /\ Emitted(out, "sync", "true") = 1
    /\ Emitted(out, "synced", "true") = 1
    /\ RemoteStruct \in doc

(***************************************************************************)
(* C12: synced rises only when a sync/syncStep2 frame arrives on a socket. *)
(* No other frame from a socket, no frame from the bus (syncStep2          *)
(* included) and no other handler changes synced from false to true.       *)
(* Stated of the runs in which the Provider alone writes synced            *)
(* (SpecSyncedByProvider): an assignment from outside raises synced with   *)
(* no frame at all.                                                        *)
(***************************************************************************)
C12_OtherFrames ==
    /\ \A sock \in Receiving, frame \in Frames \ Step2Frames :
           OnMessage(Here, sock, frame).provider.synced = provider.synced
    /\ provider.broadcastConnected =>
           \A frame \in Frames :
               LET after == BroadcastSubscriber(Here, frame, "broadcastchannel")
               IN /\ after.provider.synced = provider.synced
                  /\ EmittedAny(after.out, "sync") = 0
                  /\ EmittedAny(after.out, "synced") = 0

C12_RisesOnMessage ==
    (~provider.synced /\ provider'.synced) => op'.name = "message"

C12_SyncedOnlyByTransportStep2 == [](C12_OtherFrames) /\ [][C12_RisesOnMessage]_vars

\* A syncStep2 frame from the bus was applied to the document of a
\* connected Provider, which is still not synced.
C12_Witness ==
    /\ op.name = "bus"
    /\ RemoteStruct \in doc
    /\ provider.webSocketConnected
    /\ ~provider.synced
    /\ out = <<>>

(***************************************************************************)
(* C13: reconnect backoff. The delay of the reconnect set when a socket    *)
(* closes is min(100 * 2^n, maxBackoffTime), n being the number of sockets *)
(* that closed without having opened since the last socket that opened;    *)
(* the counter of the Provider equals n in every state. With               *)
(* maxBackoffTime = 2500, ten such closes in a row wait 200, 400, 800,     *)
(* 1600 and then 2500 ms six times.                                        *)
(***************************************************************************)
LastOpened ==
    LET opened == {sock \in SocketIds : sockets[sock].opened}
    IN IF opened = {} THEN 0 ELSE CHOOSE sock \in opened : \A other \in opened : other <= sock

Failures ==
    Cardinality({sock \in SocketIds : sock > LastOpened /\ sockets[sock].readyState = "CLOSED"})

ScenarioE == <<200, 400, 800, 1600, 2500, 2500, 2500, 2500, 2500, 2500>>

Least(a, b) == IF a < b THEN a ELSE b

C13_Backoff ==
    /\ provider.webSocketUnsuccessfulReconnects = Failures
    /\ op.name = "close" =>
          LET last == out[Len(out)]
          IN /\ last.kind = "setTimeout"
             /\ last.num = Least(100 * 2 ^ Failures, maxBackoffTime)
             /\ Failures \in 1..Len(ScenarioE) => last.num = ScenarioE[Failures]
             /\ Len(SelectSeq(out, LAMBDA e : e.kind = "setTimeout")) = 1

\* The tenth socket in a row has closed without having opened.
C13_Witness ==
    /\ op.name = "close"
    /\ Failures = 10
    /\ LastOpened = 0
    /\ out[Len(out)].num = 2500

(***************************************************************************)
(* C14: after disconnect() no socket is created until connect is called.   *)
(* Only connect and disconnect change the intent to connect, to true and   *)
(* to false; and while the intent is false no handler other than connect   *)
(* creates a socket: not the close event, not a reconnect timeout, not a   *)
(* tick of the interval timers.                                            *)
(***************************************************************************)
C14_Intent ==
    /\ op.name = "disconnect" => ~provider.shouldConnect
    /\ op.name = "connect" => provider.shouldConnect

C14_Step ==
    /\ provider'.shouldConnect # provider.shouldConnect => op'.name \in {"connect", "disconnect"}
    /\ (~provider.shouldConnect /\ Len(sockets') > Len(sockets)) => op'.name = "connect"

C14_NoSocketAfterDisconnect == [](C14_Intent) /\ [][C14_Step]_vars

\* disconnect() was called on a connected socket; the socket has closed and
\* the reconnect timeout it set has fired without creating a socket.
C14_Witness ==
    /\ op.name = "timer"
    /\ ~provider.shouldConnect
    /\ timers = 0
    /\ Len(sockets) = 1
    /\ sockets[1].readyState = "CLOSED"
    /\ sockets[1].opened
    /\ out = <<>>

(***************************************************************************)
(* C15: at most one socket has not closed; it is the one the Provider      *)
(* refers to. After the close handler the reference is empty and the       *)
(* reconnect is the last thing the handler scheduled; a socket is created  *)
(* only in a state whose reference is empty.                               *)
(***************************************************************************)
Unclosed == {sock \in SocketIds : sockets[sock].readyState # "CLOSED"}

C15_OneSocket ==
    /\ Cardinality(Unclosed) <= 1
    /\ \A sock \in Unclosed : provider.socket = sock
    /\ provider.socket # 0 => provider.socket \in Unclosed
    /\ op.name = "close" => provider.socket = 0 /\ out[Len(out)].kind = "setTimeout"

C15_Step == Len(sockets') > Len(sockets) => provider.socket = 0 /\ Len(sockets') = Len(sockets) + 1

C15_AtMostOneSocket == [](C15_OneSocket) /\ [][C15_Step]_vars

\* A reconnect timeout has fired while the socket of a later connect() was
\* still connecting, and created nothing.
C15_Witness ==
    /\ op.name = "timer"
    /\ out = <<>>
    /\ provider.shouldConnect
    /\ Len(sockets) = 2
    /\ sockets[2].readyState = "CONNECTING"
    /\ provider.socket = 2

(***************************************************************************)
(* C16: the close of a socket that had opened leaves the Provider          *)
(* disconnected and not synced, removes from states every client but the   *)
(* local one, keeps the local entry, and emits status disconnected, all    *)
(* before the reconnect is scheduled; the unsuccessful-reconnect counter   *)
(* stays. The close of a socket that never opened does none of this and    *)
(* raises the counter by one.                                              *)
(***************************************************************************)
Position(o, kind, name, arg) ==
    CHOOSE i \in 1..Len(o) : o[i].kind = kind /\ o[i].name = name /\ o[i].arg = arg

ClosedFrom(sock) == OnClose([Here EXCEPT !.sockets[sock].readyState = "CLOSED"], sock)

C16_CloseEffects ==
    \A sock \in Unclosed :
        LET after == ClosedFrom(sock)
        IN IF sockets[sock].opened
           THEN /\ ~after.provider.webSocketConnected
                /\ ~after.provider.synced
                /\ \A client \in Range(MapKeys(after.states)) : client = Self
                /\ MapGet(after.states, Self) = MapGet(states, Self)
                /\ MapGet(after.meta, Self) = MapGet(meta, Self)
                /\ Emitted(after.out, "status", "disconnected") = 1
                /\ Position(after.out, "emit", "status", "disconnected")
                      < Position(after.out, "setTimeout", "setupWebsocket", "")
                /\ after.provider.webSocketUnsuccessfulReconnects
                      = provider.webSocketUnsuccessfulReconnects
                /\ Remotes(states) # <<>> =>
                      \E i \in 1..Len(after.events) :
                          /\ after.events[i].name = "update"
                          /\ after.events[i].removed = Remotes(states)
           ELSE /\ after.states = states
                /\ after.meta = meta
                /\ after.events = <<>>
                /\ after.provider.synced = provider.synced
                /\ after.provider.webSocketConnected = provider.webSocketConnected
                /\ EmittedAny(after.out, "status") = 0
                /\ EmittedAny(after.out, "sync") = 0
                /\ after.provider.webSocketUnsuccessfulReconnects
                      = provider.webSocketUnsuccessfulReconnects + 1

\* A synced socket has closed: client 2 was removed, the local entry stays.
C16_Witness ==
    /\ op.name = "close"
    /\ sockets[op.size].opened
    /\ Emitted(out, "sync", "false") = 1
    /\ Emitted(out, "status", "disconnected") = 1
    /\ \E i \in 1..Len(events) : events[i].removed = <<2>> /\ events[i].origin = This
    /\ MapKeys(states) = <<Self>>

(***************************************************************************)
(* C17: applying an incoming syncStep2 or update frame changes the         *)
(* document with the Provider as origin, and that change is neither sent   *)
(* on the socket nor published on the bus; a change of the document with   *)
(* another origin is wrapped into one sync/update frame and given once to  *)
(* each connected channel, socket first, in the order of the changes.      *)
(***************************************************************************)
SentOrPublished(o) == SelectSeq(o, LAMBDA e : e.kind \in {"send", "publish"})

ApplyingFrames == {<<messageSync, sub, update>> :
                       sub \in {syncStep2, syncUpdate},
                       update \in {<<RemoteStruct>>, <<LocalStruct, RemoteStruct>>}}

\* What broadcastMessageBoth(frame) is expected to put on the channels.
OnBothChannels(frame) ==
    (IF provider.webSocketConnected /\ provider.socket # 0
     THEN <<Out("send", "socket", "", provider.socket, frame)>> ELSE <<>>)
    \o (IF provider.broadcastConnected
        THEN <<Out("publish", "bus", This, 0, frame)>> ELSE <<>>)

C17_EchoDropped ==
    \A frame \in ApplyingFrames :
        /\ LET after == DocApply(Here, frame[3], This)
           IN /\ after.doc = doc \cup DecodeStructs(frame[3])
              /\ after.out = <<>>
        /\ \A sock \in Receiving :
               LET after == OnMessage(Here, sock, frame)
               IN /\ after.doc = doc \cup DecodeStructs(frame[3])
                  /\ SentOrPublished(after.out) = <<>>
        /\ LET after == BroadcastSubscriber(Here, frame, "broadcastchannel")
           IN /\ after.doc = doc \cup DecodeStructs(frame[3])
              /\ SentOrPublished(after.out) = <<>>

C17_OthersForwarded ==
    \A first \in {LocalStruct, RemoteStruct} \ doc :
        LET one == DocApply(Here, <<first>>, "local")
        IN /\ one.out = OnBothChannels(<<messageSync, syncUpdate, <<first>>>>)
           /\ \A second \in {LocalStruct, RemoteStruct} \ one.doc :
                  DocApply(one, <<second>>, "local").out
                      = OnBothChannels(<<messageSync, syncUpdate, <<first>>>>)
                        \o OnBothChannels(<<messageSync, syncUpdate, <<second>>>>)

C17_DocumentEcho == C17_EchoDropped /\ C17_OthersForwarded

\* A syncStep2 has been applied on a connected socket with the bus connected,
\* nothing went out, and the local struct is still to be edited.
C17_Witness ==
    /\ op.name = "message"
    /\ provider.webSocketConnected
    /\ provider.broadcastConnected
    /\ Emitted(out, "sync", "true") = 1
    /\ SentOrPublished(out) = <<>>
    /\ doc = {RemoteStruct}

(***************************************************************************)
(* C18: the subscriber of the Provider drops a bus frame whose origin is   *)
(* the Provider: document, awareness and synced stay, nothing is published *)
(* and nothing is sent, whatever the frame.                                *)
(***************************************************************************)
C18_OwnFrameDropped ==
    \A frame \in Frames :
        LET own == BroadcastSubscriber(Here, frame, This)
        IN /\ own.doc = doc
           /\ own.states = states
           /\ own.meta = meta
           /\ own.provider = provider
           /\ own.events = <<>>
           /\ own.out = <<>>

\* The Provider has answered a syncStep1 of the bus with a syncStep2 that
\* carries its struct; its own subscriber was called with that frame.
C18_Witness ==
    /\ op.name = "bus"
    /\ provider.broadcastConnected
    /\ out = <<Out("publish", "bus", This, 0, <<messageSync, syncStep2, <<LocalStruct>>>>)>>
    /\ ~provider.synced

(***************************************************************************)
(* C19: the reply encoder that readMessage leaves is sent on the socket    *)
(* the frame arrived on, or published on the bus if the frame arrived on   *)
(* the bus, and only if it holds more than its tag; the answers to         *)
(* syncStep1 and to queryAwareness are the only thing these frames put on  *)
(* a channel, and they go to the channel of the frame alone.               *)
(***************************************************************************)
AskingFrames ==
    {frame \in Frames : \/ frame[1] = messageQueryAwareness
                        \/ frame[1] = messageSync /\ frame[2] = syncStep1}

\* What the channel of the frame gets after readMessage: the reply encoder,
\* if it holds more than its tag.
Answer(encoder, entry) == IF Len(encoder) > 1 THEN <<entry>> ELSE <<>>

Only(o, kind) == \A i \in 1..Len(o) : o[i].kind = kind

C19_OnSocket(frame, sock) ==
    LET read == ReadMessage([Here EXCEPT !.provider.webSocketLastMessageReceived = now],
                            frame, TRUE)
        o == OnMessage(Here, sock, frame).out
    IN /\ o = read.s.out \o Answer(read.encoder, Out("send", "socket", "", sock, read.encoder))
       /\ frame \in AskingFrames => Len(o) <= 1 /\ Only(o, "send")

C19_OnBus(frame) ==
    LET read == ReadMessage(Here, frame, FALSE)
        o == BroadcastSubscriber(Here, frame, "broadcastchannel").out
    IN /\ o = read.s.out \o Answer(read.encoder, Out("publish", "bus", This, 0, read.encoder))
       /\ frame \in AskingFrames => Len(o) <= 1 /\ Only(o, "publish")
       /\ frame[1] = messageSync /\ frame[2] = syncStep1 =>
              read.encoder = <<messageSync, syncStep2, EncodeStructs(doc \ DecodeStructs(frame[3]))>>
       /\ frame[1] = messageQueryAwareness => read.encoder[1] = messageAwareness

C19_ReplyChannel ==
    \A frame \in Frames :
        /\ C19_OnBus(frame)
        /\ \A sock \in Receiving : C19_OnSocket(frame, sock)

\* With the bus connected, a syncStep1 of the socket was answered on the
\* socket alone.
C19_Witness ==
    /\ op.name = "message"
    /\ provider.broadcastConnected
    /\ out = <<Out("send", "socket", "", op.size, <<messageSync, syncStep2, <<LocalStruct>>>>)>>

(***************************************************************************)
(* C20: the awareness listener of the Provider drops the events whose      *)
(* origin is the Provider: applying an awareness frame of the socket or of *)
(* the bus puts nothing on the socket and nothing on the bus.              *)
(***************************************************************************)
AwarenessFrames == {frame \in Frames : frame[1] = messageAwareness}

C20_AwarenessEchoFiltered ==
    \A frame \in AwarenessFrames :
        /\ \A sock \in Receiving : SentOrPublished(OnMessage(Here, sock, frame).out) = <<>>
        /\ SentOrPublished(BroadcastSubscriber(Here, frame, "broadcastchannel").out) = <<>>

(***************************************************************************)
(* C21: connectBroadcast with the bus enabled subscribes, unless the       *)
(* Provider is subscribed already, and then publishes with the Provider as *)
(* origin, in this order: sync/syncStep1 with the state vector,            *)
(* sync/syncStep2 with the whole document, queryAwareness, and awareness   *)
(* with the local client's clock and state; connectWebSocket runs it after *)
(* creating the socket. With the bus disabled the Provider is never        *)
(* subscribed and logs no subscribe and no publish.                        *)
(***************************************************************************)
OnBus(o) == SelectSeq(o, LAMBDA e : e.kind \in {"subscribe", "publish", "unsubscribe"})

Published(frame) == Out("publish", "bus", This, 0, frame)

LocalRecord(st, mt) ==
    <<1, Self, MapGet(mt, Self).clock, JSONstringify(localState(st))>>

JoinDance ==
    (IF provider.broadcastConnected THEN <<>> ELSE <<Out("subscribe", "bus", "", 0, <<>>)>>)
    \o <<Published(<<messageSync, syncStep1, EncodeStructs(doc)>>),
         Published(<<messageSync, syncStep2, EncodeStructs(doc)>>),
         Published(<<messageQueryAwareness>>),
         Published(<<messageAwareness, LocalRecord(states, meta)>>)>>

C21_Joins ==
    provider.enableBroadcast =>
        /\ ConnectBroadcast(Here).out = JoinDance
        /\ ConnectBroadcast(Here).provider.broadcastConnected
        /\ ~provider.webSocketConnected /\ provider.socket = 0 =>
               /\ OnBus(ConnectResult(Here).out) = JoinDance
               /\ ConnectResult(Here).out[1].kind = "new"
        /\ provider.webSocketConnected \/ provider.socket # 0 =>
               ConnectResult(Here).out = <<>>

C21_Disabled ==
    ~provider.enableBroadcast =>
        /\ ~provider.broadcastConnected
        /\ OnBus(out) = <<>>
        /\ ConnectBroadcast(Here) = Here

C21_JoinDance == C21_Joins /\ C21_Disabled

\* connectWebSocket() has run with a struct in the document and the Provider
\* not yet subscribed: it subscribed and published the four frames.
C21_Witness ==
    /\ op.name = "connect"
    /\ doc = {LocalStruct}
    /\ Len(out) > 5
    /\ SubSeq(out, Len(out) - 4, Len(out))
          = <<Out("subscribe", "bus", "", 0, <<>>),
              Published(<<messageSync, syncStep1, <<LocalStruct>>>>),
              Published(<<messageSync, syncStep2, <<LocalStruct>>>>),
              Published(<<messageQueryAwareness>>),
              Published(<<messageAwareness, LocalRecord(states, meta)>>)>>

(***************************************************************************)
(* C22: a Provider with client id 2 joins the bus this Provider is         *)
(* subscribed to, with any local entry (clock, state), a freshly           *)
(* constructed one included (clock 0, state {}). Once this Provider has    *)
(* read the four frames of the join, states holds the entry of client 2,   *)
(* and what this Provider published holds its own local entry in a record  *)
(* that an engine without meta for this client accepts.                    *)
(***************************************************************************)
PeerClient == 2

PeerEntries == {[clock |-> c, state |-> v] : c \in {0, 1}, v \in {EmptyObj, ObjA}}

\* The frames connectBroadcast of the peer publishes; its document is empty.
PeerJoin(entry) ==
    <<(<<messageSync, syncStep1, <<>>>>),
      (<<messageSync, syncStep2, <<>>>>),
      (<<messageQueryAwareness>>),
      (<<messageAwareness, <<1, PeerClient, entry.clock, JSONstringify(entry.state)>>>>)>>

\* This Provider after its subscriber has read the frames, in order.
AfterFrames(frames) ==
    LET acc[i \in 0..Len(frames)] ==
            IF i = 0 THEN Here
            ELSE BroadcastSubscriber(acc[i - 1], frames[i], "broadcastchannel")
    IN acc[Len(frames)]

\* blob holds a record of client that an engine with states st, meta mt takes.
Teaches(blob, client, st, mt) ==
    \E k \in 1..blob[1] :
        /\ ReadRecord(blob, k).clientID = client
        /\ ReadRecord(blob, k).state # Null
        /\ Accepts(st, mt, ReadRecord(blob, k))

C22_LateJoinConverges ==
    provider.broadcastConnected /\ localState(states) # Null =>
        \A entry \in PeerEntries :
            LET after == AfterFrames(PeerJoin(entry))
            IN /\ MapGet(after.states, PeerClient) = entry.state
               /\ \E i \in 1..Len(after.out) :
                      /\ after.out[i].kind = "publish"
                      /\ after.out[i].data[1] = messageAwareness
                      /\ Teaches(after.out[i].data[2], Self, EmptyMap, EmptyMap)

(***************************************************************************)
(* C23: disconnect() puts on the socket, if the Provider is connected and  *)
(* before socket.close(), and on the bus, if it is subscribed and before   *)
(* the unsubscribe, an awareness frame with one record: the local client,  *)
(* state null, and the clock meta[self].clock + 1.                         *)
(***************************************************************************)
LeaveFrame == <<messageAwareness, <<1, Self, MapGet(meta, Self).clock + 1, "null">>>>

LeaveDance ==
    (IF provider.webSocketConnected /\ provider.socket # 0
     THEN <<Out("send", "socket", "", provider.socket, LeaveFrame)>> ELSE <<>>)
    \o (IF provider.broadcastConnected
        THEN <<Published(LeaveFrame), Out("unsubscribe", "bus", "", 0, <<>>)>> ELSE <<>>)
    \o (IF provider.socket # 0
        THEN <<Out("close", "socket", "", provider.socket, <<>>)>> ELSE <<>>)

C23_LeaveDance == DisconnectResult(Here).out = LeaveDance

(***************************************************************************)
(* C24: the local client has a meta entry in every reachable state, so     *)
(* encodeUpdate([clientID], new Map()) returns a blob, disconnectBroadcast *)
(* does not return early, and after disconnect() the Provider is not       *)
(* subscribed to the bus.                                                  *)
(***************************************************************************)
C24_UnsubscribedAfterDisconnect ==
    /\ MapHas(meta, Self)
    /\ EncodeUpdate(<<Self>>, EmptyMap, meta).ok
    /\ ~DisconnectBroadcast(Here).provider.broadcastConnected
    /\ ~DisconnectResult(Here).provider.broadcastConnected
    /\ op.name = "disconnect" => ~provider.broadcastConnected

\* disconnect() has unsubscribed a Provider whose local state is null.
C24_Witness ==
    /\ op.name = "disconnect"
    /\ ~MapHas(states, Self)
    /\ \E i \in 1..Len(out) : out[i].kind = "unsubscribe"

(***************************************************************************)
(* C25: the watchdog closes the socket exactly when the Provider is        *)
(* connected and more than messageReconnectTimeout has passed since the    *)
(* last frame or the open; while a connected, open socket is that silent   *)
(* the next tick is due no later than one period after the 30 s ended;     *)
(* every frame read and every open set the time measured from to now.      *)
(***************************************************************************)
Silence == now - provider.webSocketLastMessageReceived

Closes(o) == \E i \in 1..Len(o) : o[i].kind = "close"

C25_ClosesWhenSilent ==
    /\ Closes(CheckTimerResult(Here).out)
          <=> provider.webSocketConnected /\ Silence > messageReconnectTimeout
    /\ provider.webSocketConnected /\ Silence > messageReconnectTimeout =>
          CheckTimerResult(Here).sockets[provider.socket].readyState \in {"CLOSING", "CLOSED"}

C25_WithinOnePeriod ==
    /\ provider.webSocketConnected
    /\ provider.socket # 0
    /\ sockets[provider.socket].readyState = "OPEN"
    /\ Silence > messageReconnectTimeout
    => /\ provider.checkTimer
       /\ now <= provider.checkTimerDue
       /\ provider.checkTimerDue <= provider.webSocketLastMessageReceived
                                        + messageReconnectTimeout + checkTimerInterval

C25_FramesReset ==
    /\ \A sock \in Receiving, frame \in Frames :
          OnMessage(Here, sock, frame).provider.webSocketLastMessageReceived = now
    /\ \A sock \in SocketIds :
          OnOpen(Here, sock).provider.webSocketLastMessageReceived = now

C25_Watchdog == C25_ClosesWhenSilent /\ C25_WithinOnePeriod /\ C25_FramesReset

\* The check timer has closed a socket that was silent for more than 30 s,
\* later than a frame that had reset the time.
C25_Witness ==
    /\ op.name = "check"
    /\ Closes(out)
    /\ provider.webSocketLastMessageReceived > 0
    /\ Silence > messageReconnectTimeout
    /\ sockets[provider.socket].readyState = "CLOSING"

(***************************************************************************)
(* C26: once destroy() has returned, a socket's close event, a reconnect   *)
(* timeout, a tick of the check timer or of the resync timer, a change of  *)
(* the document and a change of awareness create no socket, send and       *)
(* publish nothing and emit no event; a second destroy() changes nothing   *)
(* and sends and publishes nothing.                                        *)
(***************************************************************************)
Destroyed == ~provider.observers

Quiet(o) == \A i \in 1..Len(o) : o[i].kind \notin {"new", "send", "publish", "emit"}

C26_CallbacksInert ==
    Destroyed =>
        /\ \A sock \in Unclosed : Quiet(ClosedFrom(sock).out)
        /\ timers > 0 => Quiet(SetupWebsocket([Here EXCEPT !.timers = @ - 1]).out)
        /\ ~provider.checkTimer
        /\ Quiet(AwarenessRun(Here, CheckResult(states, meta, now)).out)
        /\ \A sock \in SocketIds, error \in BOOLEAN : Quiet(OnSent(Here, sock, error).out)
        /\ ~provider.resyncTimer
        /\ \A struct \in {LocalStruct, RemoteStruct} : Quiet(DocApply(Here, <<struct>>, "local").out)
        /\ \A state \in {Null, ObjA} :
               Quiet(AwarenessRun(Here, SetLocalStateResult(states, meta, state, now)).out)

C26_SecondDestroy ==
    Destroyed =>
        /\ Quiet(DestroyResult(Here).out)
        /\ [DestroyResult(Here) EXCEPT !.out = <<>>] = Here

C26_NothingAfterDestroy == C26_CallbacksInert /\ C26_SecondDestroy

(***************************************************************************)
(* C27: after Provider.destroy() the sweeper of the engine no longer fires *)
(* and states has no entry for the local client.                           *)
(***************************************************************************)
C27_EngineDestroyed == Destroyed => ~timerOn /\ ~MapHas(states, Self)

(***************************************************************************)
(* C28: a frame of the socket that is cut short or cannot be decoded (a    *)
(* sync frame with an unknown type included) leaves document, awareness    *)
(* and synced as they were, and the handler closes the socket, so that the *)
(* close event schedules the reconnect.                                    *)
(***************************************************************************)
BadFrames ==
    {<<>>, <<messageSync>>, <<messageSync, 7, <<>>>>, <<messageSync, syncStep1>>,
     <<messageSync, syncStep2>>, <<messageSync, syncUpdate>>, <<messageAwareness>>,
     <<messageAwareness, <<>>>>, <<messageAwareness, <<1, 2, 1>>>>,
     <<messageAwareness, <<1, 2, 1, "{">>>>, <<messageAwareness, CutBlob>>,
     <<messageAuth>>, <<messageAuth, messagePermissionDenied>>}

C28_BadFrameClosesSocket ==
    \A frame \in BadFrames, sock \in Receiving :
        LET after == OnMessage(Here, sock, frame)
        IN /\ after.doc = doc
           /\ after.states = states
           /\ after.meta = meta
           /\ after.provider.synced = provider.synced
           /\ Closes(after.out)
           /\ after.sockets[sock].readyState \in {"CLOSING", "CLOSED"}

(***************************************************************************)
(* C29: when the engine throws on the blob of a syncStep2 or update frame  *)
(* of the socket, the handler does not close the socket, leaves the        *)
(* transport fields, the document and awareness as they were, sends and    *)
(* publishes nothing, and leaves the Provider in the state the same frame  *)
(* with an empty blob leaves it in, so that later frames are read alike.   *)
(***************************************************************************)
FailingFrames ==
    {<<messageSync, sub, update>> : sub \in {syncStep2, syncUpdate},
                                    update \in {<<0>>, <<RemoteStruct, 0>>}}

Transport(p) ==
    <<p.shouldConnect, p.socket, p.webSocketConnected, p.webSocketConnecting,
      p.webSocketUnsuccessfulReconnects>>

C29_ApplyErrorSwallowed ==
    \A frame \in FailingFrames, sock \in Receiving :
        LET after == OnMessage(Here, sock, frame)
        IN /\ ~Closes(after.out)
           /\ after.sockets = sockets
           /\ after.timers = timers
           /\ Transport(after.provider) = Transport(provider)
           /\ after.doc = doc
           /\ after.states = states
           /\ after.meta = meta
           /\ after.events = <<>>
           /\ SentOrPublished(after.out) = <<>>
           /\ after = OnMessage(Here, sock, <<messageSync, frame[2], <<>>>>)

\* A syncStep2 whose blob the engine rejects was read on the socket: the
\* Provider is synced and the document is still empty.
C29_Witness ==
    /\ op.name = "message"
    /\ provider.synced
    /\ Emitted(out, "sync", "true") = 1
    /\ doc = {}
    /\ sockets[op.size].readyState = "OPEN"

(***************************************************************************)
(* C30: socket.onopen leaves the Provider connected with the counter of    *)
(* unsuccessful reconnects at 0, emits status connected, then sends on the *)
(* socket sync/syncStep1 with the state vector and, if and only if the     *)
(* local state (as the localState getter reads it) is not null, an         *)
(* awareness frame with the local record; nothing is sent on a socket      *)
(* before its onopen, so syncStep1 is the first frame on every socket.     *)
(***************************************************************************)
Connecting == {sock \in SocketIds : sockets[sock].readyState = "CONNECTING"}

OpenedFrom(sock) ==
    OnOpen([Here EXCEPT !.sockets[sock].readyState = "OPEN", !.sockets[sock].opened = TRUE], sock)

Sent(sock, frame) == Out("send", "socket", "", sock, frame)

C30_OnOpen ==
    \A sock \in Connecting :
        LET after == OpenedFrom(sock)
        IN /\ after.provider.webSocketConnected
           /\ ~after.provider.webSocketConnecting
           /\ after.provider.webSocketUnsuccessfulReconnects = 0
           /\ after.provider.webSocketLastMessageReceived = now
           /\ after.out
                 = <<Out("emit", "status", "connected", 0, <<>>),
                     Sent(sock, <<messageSync, syncStep1, EncodeStructs(doc)>>)>>
                   \o (IF localState(states) # Null
                       THEN <<Sent(sock, <<messageAwareness, LocalRecord(states, meta)>>)>>
                       ELSE <<>>)

SendsTo(o, sock) == SelectSeq(o, LAMBDA e : e.kind = "send" /\ e.num = sock)

C30_FirstFrameStep ==
    \A sock \in 1..Len(sockets') :
        SendsTo(out', sock) # <<>> =>
            \/ sock \in SocketIds /\ sockets[sock].opened
            \/ /\ op' = [name |-> "open", size |-> sock]
               /\ SendsTo(out', sock)[1].data = <<messageSync, syncStep1, EncodeStructs(doc')>>

C30_OpenHandshake == []C30_OnOpen /\ [][C30_FirstFrameStep]_vars

\* A socket has opened while the local state is null and the document holds
\* a struct: status connected and one frame, syncStep1, went out.
C30_Witness ==
    /\ op.name = "open"
    /\ ~MapHas(states, Self)
    /\ doc = {LocalStruct}
    /\ out = <<Out("emit", "status", "connected", 0, <<>>),
               Sent(op.size, <<messageSync, syncStep1, <<LocalStruct>>>>)>>

(***************************************************************************)
(* C31: removeStates(ids, origin) deletes from states exactly the listed   *)
(* ids that states holds and keeps every other entry, in order; the meta   *)
(* entry of every remote client is unchanged; if the local id is deleted   *)
(* meta[self].clock rises by one, with the time of the call; change and    *)
(* update are emitted with the origin given and the deleted ids, each      *)
(* once, as removed; with no listed id in states nothing changes and       *)
(* nothing is emitted.                                                     *)
(***************************************************************************)
Origins == {"provider", "timeout"}

Present(st, clients) == {client \in Range(clients) : MapHas(st, client)}

C31_RemoveStates ==
    \A clients \in ClientLists, origin \in Origins :
        LET r == RemoveStatesResult(states, meta, clients, origin, now)
            gone == Present(states, clients)
        IN /\ r.states = SelectSeq(states, LAMBDA entry : entry.k \notin Range(clients))
           /\ \A client \in Clients \ {Self} : MetaEntry(r.meta, client) = MetaEntry(meta, client)
           /\ MapKeys(r.meta) = MapKeys(meta)
           /\ IF Self \in gone
              THEN MapGet(r.meta, Self) = [clock |-> MapGet(meta, Self).clock + 1,
                                           lastUpdated |-> now]
              ELSE r.meta = meta
           /\ IF gone = {}
              THEN r.events = <<>> /\ r.states = states /\ r.meta = meta
              ELSE /\ Len(r.events) = 2
                   /\ r.events[1].name = "change" /\ r.events[2].name = "update"
                   /\ \A i \in 1..2 :
                         /\ r.events[i].origin = origin
                         /\ r.events[i].added = <<>> /\ r.events[i].updated = <<>>
                         /\ Range(r.events[i].removed) = gone
                         /\ Len(r.events[i].removed) = Cardinality(gone)

\* removeStates deleted the local entry and a remote one, the local id
\* listed first; the local clock has risen.
C31_Witness ==
    /\ op = [name |-> "removeStates", size |-> 2]
    /\ events = <<Event("change", <<>>, <<>>, <<Self, 2>>, "provider"),
                  Event("update", <<>>, <<>>, <<Self, 2>>, "provider")>>
    /\ states = <<>>
    /\ MapGet(meta, Self).clock = 1

(***************************************************************************)
(* C32: the lists applyUpdate reports match what the call did to states:   *)
(* an id is reported as added exactly when states did not hold it before   *)
(* the call and holds it after, and an id reported as removed was held     *)
(* before the call and is not held after.                                  *)
(***************************************************************************)
ReportedAdded(evs) == UNION {Range(evs[i].added) : i \in 1..Len(evs)}

ReportedRemoved(evs) == UNION {Range(evs[i].removed) : i \in 1..Len(evs)}

C32_ClassificationMatches ==
    \A update \in Blobs :
        LET r == Applied(update)
        IN \A client \in Clients :
              /\ client \in ReportedAdded(r.events)
                    <=> ~MapHas(states, client) /\ MapHas(r.states, client)
              /\ client \in ReportedRemoved(r.events)
                    => MapHas(states, client) /\ ~MapHas(r.states, client)

(***************************************************************************)
(* C33: self-defense is announced. When a null record for the local client *)
(* arrives, on the socket or on the bus, and is taken while the local      *)
(* state is not null and the socket is open, the Provider sends on the     *)
(* socket an awareness frame with the record of the local client: its      *)
(* state, not null, and the clock of the null record plus one. A peer that *)
(* took the same null record (it holds that clock and no entry) takes this *)
(* record.                                                                 *)
(* awareness.destroy(), which the destroy event of the document also       *)
(* calls, drops the listener of the Provider: a local state assigned after *)
(* it is defended by the engine and nothing is sent.                       *)
(***************************************************************************)
NullClocks == {1, 2}

NullRecord(clock) == [clientID |-> Self, clock |-> clock, state |-> Null]

NullFrame(clock) == <<messageAwareness, <<1, Self, clock, "null">>>>

\* meta of a peer that took the null record of that clock.
PeerMetaAfterNull(clock) == <<[k |-> Self, v |-> [clock |-> clock, lastUpdated |-> now]]>>

Announces(o, sock, clock) ==
    \E i \in 1..Len(o) :
        /\ o[i].kind = "send" /\ o[i].num = sock
        /\ o[i].data = <<messageAwareness,
                         <<1, Self, clock + 1, JSONstringify(localState(states))>>>>
        /\ Teaches(o[i].data[2], Self, EmptyMap, PeerMetaAfterNull(clock))

Transporting ==
    /\ provider.webSocketConnected
    /\ provider.socket # 0
    /\ sockets[provider.socket].readyState = "OPEN"

C33_DefenseAnnounced ==
    \A clock \in NullClocks :
        (/\ Transporting
         /\ localState(states) # Null
         /\ Accepts(states, meta, NullRecord(clock)))
        => /\ Announces(OnMessage(Here, provider.socket, NullFrame(clock)).out,
                        provider.socket, clock)
           /\ provider.broadcastConnected =>
                 Announces(BroadcastSubscriber(Here, NullFrame(clock), "broadcastchannel").out,
                           provider.socket, clock)

(***************************************************************************)
(* C34: between handlers the status of the last status event is the state  *)
(* of the transport: connecting while the Provider has a socket that has   *)
(* not opened, connected once it has opened, disconnected while it has no  *)
(* socket. As a property of steps: a handler that emits status events      *)
(* ends with the one of the state it leaves, and a handler that changes    *)
(* the state of the transport emits a status event.                        *)
(***************************************************************************)
TransportState ==
    IF provider.socket = 0 THEN "disconnected"
    ELSE IF sockets[provider.socket].opened THEN "connected"
    ELSE "connecting"

StatusEvents(o) == SelectSeq(o, LAMBDA e : e.kind = "emit" /\ e.name = "status")

LastStatus(o) == StatusEvents(o)[Len(StatusEvents(o))].arg

C34_EmittedIsActual ==
    StatusEvents(out') # <<>> => LastStatus(out') = TransportState'

C34_ChangeIsEmitted ==
    TransportState' # TransportState => StatusEvents(out') # <<>>

C34_StatusTracksTransport == [][C34_EmittedIsActual /\ C34_ChangeIsEmitted]_vars

\* The first half alone.
C34_StatusEventsAreActual == [][C34_EmittedIsActual]_vars

(***************************************************************************)
(* C35: in every reachable state, synced implies that the Provider is      *)
(* connected on a socket that has opened and has not closed; the flags     *)
(* webSocketConnecting and webSocketConnected are never both true, and     *)
(* each implies a socket: connecting one that has not opened, connected    *)
(* one that has. Stated of the runs in which the Provider alone writes     *)
(* synced (SpecSyncedByProvider): an assignment from outside sets synced   *)
(* on a Provider that has no socket.                                       *)
(***************************************************************************)
C35_FlagsConsistent ==
    /\ provider.synced =>
          /\ provider.webSocketConnected
          /\ provider.socket # 0
          /\ sockets[provider.socket].opened
          /\ sockets[provider.socket].readyState # "CLOSED"
    /\ ~(provider.webSocketConnecting /\ provider.webSocketConnected)
    /\ provider.webSocketConnecting =>
          provider.socket # 0 /\ ~sockets[provider.socket].opened
    /\ provider.webSocketConnected =>
          provider.socket # 0 /\ sockets[provider.socket].opened

\* A syncStep2 frame has arrived on the second socket, after the first one
\* closed: the Provider is synced again.
C35_Witness ==
    /\ op = [name |-> "message", size |-> 2]
    /\ provider.synced
    /\ provider.socket = 2
    /\ Emitted(out, "synced", "true") = 1

(***************************************************************************)
(* SpecRelay: the Providers of one room, each with its engine, exchanging  *)
(* frames over the bus. Every Provider runs the same code with             *)
(* its own client id: the code of Provider p is evaluated on its engine    *)
(* with the ids p and Self exchanged, and what it publishes is exchanged   *)
(* back. A published frame is in flight to every other Provider until its  *)
(* subscriber reads it; a subscriber reads the frames in the order of      *)
(* their publication, and the subscribers run in any order.                *)
(* A room has two Providers, whose applications make at most MaxCalls     *)
(* calls, or three, whose applications make at most MaxRelayCalls calls.   *)
(***************************************************************************)
RelayPeers == {Self, PeerClient, 3}

Rooms == {{Self, PeerClient}, RelayPeers}

RoomCalls(room) == IF room = RelayPeers THEN MaxRelayCalls ELSE MaxCalls

\* The Providers of the room.
Room == {Self} \cup DOMAIN peers

Rename(p, client) == IF client = Self THEN p ELSE IF client = p THEN Self ELSE client

RenameMap(p, m) == [i \in 1..Len(m) |-> [k |-> Rename(p, m[i].k), v |-> m[i].v]]

RenameBlob(p, update) ==
    [i \in 1..Len(update) |-> IF i % 3 = 2 THEN Rename(p, update[i]) ELSE update[i]]

\* Only the blob of an awareness frame names clients.
RenameFrame(p, frame) ==
    IF Len(frame) > 1 /\ frame[1] = messageAwareness
    THEN <<frame[1], RenameBlob(p, frame[2])>>
    ELSE frame

\* The engine of Provider p.
EngineOf(p) == IF p = Self THEN [states |-> states, meta |-> meta] ELSE peers[p]

\* A Provider of the room after its constructor, with the default
\* configuration: it is subscribed to the bus and its socket is connecting.
RelayConstructed == ProviderConstructed(TRUE, TRUE)

\* The fields of a Provider of the room: no socket opens or closes.
RelayFields == RelayConstructed.provider

\* Provider p, as its own code sees it.
At(p) ==
    [states |-> RenameMap(p, EngineOf(p).states), meta |-> RenameMap(p, EngineOf(p).meta),
     events |-> <<>>, provider |-> RelayFields, sockets |-> RelayConstructed.sockets,
     timers |-> 0, doc |-> {}, out |-> <<>>, now |-> now]

\* The frames Provider p published, in the order of publication.
PublishedBy(p, o) ==
    LET frames == SelectSeq(o, LAMBDA e : e.kind = "publish")
    IN [i \in 1..Len(frames) |-> RenameFrame(p, frames[i].data)]

\* The frames in flight once the Providers are constructed, in the order of
\* their ids: a Provider publishes its join frames to those subscribed
\* before it.
JoinFlight(room) ==
    LET acc[k \in 0..Cardinality(Clients)] ==
            IF k = 0 THEN [q \in room |-> <<>>]
            ELSE IF k \notin room THEN acc[k - 1]
            ELSE [q \in room |->
                     IF q < k THEN acc[k - 1][q] \o PublishedBy(k, RelayConstructed.out)
                     ELSE acc[k - 1][q]]
    IN acc[Cardinality(Clients)]

\* A handler of Provider p has run and left s; it read the first taken
\* frames in flight to it.
Leave(p, s, taken, name) ==
    /\ IF p = Self
       THEN states' = s.states /\ meta' = s.meta /\ events' = s.events /\ out' = s.out
            /\ peers' = peers
       ELSE /\ peers' = [peers EXCEPT ![p] = [states |-> RenameMap(p, s.states),
                                               meta |-> RenameMap(p, s.meta)]]
            /\ UNCHANGED <<states, meta, events, out>>
    /\ flight' = [q \in Room |->
                     IF q = p THEN SubSeq(flight[q], taken + 1, Len(flight[q]))
                     ELSE flight[q] \o PublishedBy(p, s.out)]
    /\ op' = [name |-> name, size |-> p]
    /\ UNCHANGED <<now, nextCheck, timerOn, assignBase, assignCount,
                   provider, sockets, timers, doc>>

\* The subscriber of Provider p reads the next frame in flight to it.
Deliver(p) ==
    /\ flight[p] # <<>>
    /\ Leave(p, BroadcastSubscriber(At(p), RenameFrame(p, Head(flight[p])), "broadcastchannel"),
             1, "deliver")
    /\ UNCHANGED budget

\* The application of Provider p assigns awareness.localState.
RelayAssign(p, state) ==
    /\ Call
    /\ Leave(p, AwarenessRun(At(p), SetLocalStateResult(At(p).states, At(p).meta, state, now)),
             0, "setLocalState")

\* Provider p removes the entry of Provider q, as the sweeper of its engine
\* does for an entry it holds to be outdated.
RelayRemove(p, q) ==
    /\ Call
    /\ Leave(p, AwarenessRun(At(p), RemoveStatesResult(At(p).states, At(p).meta,
                                        <<Rename(p, q)>>, "timeout", now)),
             0, "removeStates")

InitRelay ==
    /\ states = Constructed.states
    /\ meta = Constructed.meta
    /\ events = Constructed.events
    /\ now = 0
    /\ nextCheck = checkInterval
    /\ timerOn = TRUE
    /\ op = [name |-> "constructor", size |-> 0]
    /\ assignBase = MapGet(Constructed.meta, Self).clock
    /\ assignCount = 0
    /\ provider = RelayFields
    /\ sockets = RelayConstructed.sockets
    /\ timers = 0
    /\ doc = {}
    /\ out = RelayConstructed.out
    /\ \E room \in Rooms :
          /\ budget = RoomCalls(room)
          /\ peers = [p \in room \ {Self} |->
                         [states |-> RenameMap(p, Constructed.states),
                          meta |-> RenameMap(p, Constructed.meta)]]
          /\ flight = JoinFlight(room)

Delivery == \E p \in Room : Deliver(p)

NextRelay ==
    \/ Delivery
    \/ \E p \in Room, state \in {Null, ObjA} : RelayAssign(p, state)
    \/ \E p \in Room : \E q \in Room \ {p} : RelayRemove(p, q)

NothingInFlight == \A p \in Room : flight[p] = <<>>

\* Every frame in flight is read in the end: weak fairness of Delivery,
\* written with its enabling condition. A frame in flight enables Delivery,
\* and a Delivery takes its frame out of flight.
DeliveryIsFair == []<>NothingInFlight \/ []<><<Delivery>>_vars

SpecRelay == InitRelay /\ [][NextRelay]_vars /\ DeliveryIsFair

(***************************************************************************)
(* C36: relaying awareness frames quiesces. With finitely many local       *)
(* assignments and removals, every execution of the Providers, each        *)
(* publishing again every change its engine takes, reaches a state from    *)
(* which no awareness frame is in flight, also when a Provider removes the *)
(* entry of a live Provider and that one defends its entry.                *)
(***************************************************************************)
AwarenessInFlight(p) == SelectSeq(flight[p], LAMBDA data : data[1] = messageAwareness)

Quiescent == \A p \in Room : AwarenessInFlight(p) = <<>>

C36_RelayQuiesces == <>[]Quiescent

\* In the room of two, Provider 2 has removed the entry of this Provider,
\* which defended it with clock 2 in its last handler; Provider 2 holds the
\* entry again and has published it again, and the engine of this Provider
\* does not take that last frame in flight.
C36_Witness ==
    /\ Room = {Self, PeerClient}
    /\ budget = 0
    /\ op = [name |-> "deliver", size |-> PeerClient]
    /\ events # <<>>
    /\ events[1].origin = This
    /\ events[1].removed = <<Self>>
    /\ MapGet(states, Self) = ObjA
    /\ MapGet(meta, Self).clock = 2
    /\ MapHas(peers[PeerClient].states, Self)
    /\ MapGet(peers[PeerClient].states, Self) = ObjA
    /\ MapGet(peers[PeerClient].meta, Self).clock = 2
    /\ flight[PeerClient] = <<>>
    /\ flight[Self] = <<<<messageAwareness, <<1, Self, 2, JSONstringify(ObjA)>>>>>>
    /\ ~Accepts(states, meta, ReadRecord(flight[Self][1][2], 1))

(***************************************************************************)
(* C37: re-announcement after a reconnect. A peer holds the entry of this  *)
(* Provider and takes the leave frame of disconnect(). The socket closes,  *)
(* the Provider connects again with no assignment of its local state in    *)
(* between, and the socket opens: the peer takes the awareness frame sent  *)
(* on the open socket, and the one published on the bus by                 *)
(* connectBroadcast, and holds the entry of this Provider again.           *)
(***************************************************************************)
\* The engine of the peer after its Provider has read the awareness frames.
PeerReads(engine, frames) ==
    LET acc[i \in 0..Len(frames)] ==
            IF i = 0 THEN engine
            ELSE LET r == ApplyUpdateResult(RenameMap(PeerClient, acc[i - 1].states),
                                            RenameMap(PeerClient, acc[i - 1].meta),
                                            RenameBlob(PeerClient, frames[i][2]), This, now)
                 IN [states |-> RenameMap(PeerClient, r.states),
                     meta |-> RenameMap(PeerClient, r.meta)]
    IN acc[Len(frames)]

\* The awareness frames a handler sent on a socket or published.
AwarenessOut(o) ==
    LET entries == SelectSeq(o, LAMBDA e : /\ e.kind \in {"send", "publish"}
                                           /\ e.data[1] = messageAwareness)
    IN [i \in 1..Len(entries) |-> entries[i].data]

Fresh(s) == [s EXCEPT !.out = <<>>]

\* A peer that has read the record of this Provider as it stands.
PeerBefore ==
    PeerReads([states |-> RenameMap(PeerClient, Constructed.states),
               meta |-> RenameMap(PeerClient, Constructed.meta)],
              <<(<<messageAwareness, LocalRecord(states, meta)>>)>>)

C37_Reannounced ==
    LET left == DisconnectResult(Here)
        peerLeft == PeerReads(PeerBefore, AwarenessOut(left.out))
        closed == OnClose([Fresh(left) EXCEPT !.sockets[provider.socket].readyState = "CLOSED"],
                          provider.socket)
        again == ConnectResult(Fresh(closed))
        sock == again.provider.socket
        opened == OnOpen([Fresh(again) EXCEPT !.sockets[sock].readyState = "OPEN",
                                              !.sockets[sock].opened = TRUE], sock)
        peerAgain == PeerReads(peerLeft, AwarenessOut(again.out) \o AwarenessOut(opened.out))
    IN (/\ Transporting
        /\ localState(states) # Null
        /\ MapHas(PeerBefore.states, Self)
        /\ ~MapHas(peerLeft.states, Self))
       => /\ sock # 0
          /\ AwarenessOut(opened.out) # <<>>
          /\ MapHas(peerAgain.states, Self)

(***************************************************************************)
(* C38: with the bus enabled, whenever the intent is to be connected and   *)
(* the Provider has a socket, connecting or connected, the Provider is     *)
(* subscribed to the bus: also when connectWebSocket() is called after     *)
(* disconnect() and before the close event of the old socket, and after    *)
(* the reconnect that follows.                                             *)
(***************************************************************************)
C38_SubscribedWhileConnecting ==
    (provider.enableBroadcast /\ provider.shouldConnect /\ provider.socket # 0)
        => provider.broadcastConnected

\* The same for the socket of a reconnect alone: one that is not closing.
C38_SubscribedOnLiveSocket ==
    (/\ provider.enableBroadcast /\ provider.shouldConnect /\ provider.socket # 0
     /\ sockets[provider.socket].readyState \in {"CONNECTING", "OPEN"})
        => provider.broadcastConnected

====
